---- MODULE Spec2Model ----
(***************************************************************************)
(* KProtect: the IL compiler (src/src/compiler.ts) and the bytecode        *)
(* virtual machine (src/build/vm.js), modelled as one state machine:       *)
(* a program is compiled statement by statement into labelled blocks, the  *)
(* blocks are serialised into a byte stream, and the VM's fetch loop       *)
(* executes that stream one opcode handler at a time.                      *)
(***************************************************************************)
EXTENDS Integers, Sequences, FiniteSets, TLC

\* ------------------------------------------------------------------------
\* Bounds of the model
\* ------------------------------------------------------------------------

\* The VM's fetch loop is cut after this many executed instructions.
MaxSteps == 60

\* Literal values 0..MaxLit are used by the generated programs.
MaxLit == 2

\* ------------------------------------------------------------------------
\* Small helpers
\* ------------------------------------------------------------------------

Digits == <<"0", "1", "2", "3", "4", "5", "6", "7", "8", "9">>

RECURSIVE NatStr(_)
\* Template-literal formatting of a non-negative integer.
NatStr(n) ==
    IF n < 10 THEN Digits[n + 1] ELSE NatStr(n \div 10) \o Digits[(n % 10) + 1]

\* `${node.start}` : a number, or the text "undefined" for a node without span
\* (a synthesized node, whose position is written as a negative number here).
PosStr(p) == IF p < 0 THEN "undefined" ELSE NatStr(p)

RECURSIVE SeqSum(_)
SeqSum(s) == IF s = <<>> THEN 0 ELSE Head(s) + SeqSum(Tail(s))

Range(f) == {f[x] : x \in DOMAIN f}

\* ------------------------------------------------------------------------
\* Syntax tree (the babel node kinds the compiler switches on)
\* ------------------------------------------------------------------------

NullNode == [type |-> "null"]
NumLit(v) == [type |-> "NumericLiteral", value |-> v]
StrLit(s) == [type |-> "StringLiteral", str |-> s]
Ident(n) == [type |-> "Identifier", name |-> n]
Bin(op, l, r) == [type |-> "BinaryExpression", operator |-> op, left |-> l, right |-> r]
Unary(op, a) == [type |-> "UnaryExpression", operator |-> op, argument |-> a]
Assign(op, l, r) == [type |-> "AssignmentExpression", operator |-> op, left |-> l, right |-> r]
Call(callee, args) == [type |-> "CallExpression", callee |-> callee, arguments |-> args]
Member(o, p) == [type |-> "MemberExpression", object |-> o, property |-> p]
ArrayExp(els) == [type |-> "ArrayExpression", elements |-> els]
ObjProp(k, v) == [type |-> "ObjectProperty", key |-> k, value |-> v]
ObjMethod(k) == [type |-> "ObjectMethod", key |-> k]
ObjectExp(props) == [type |-> "ObjectExpression", properties |-> props]
Update(op, prefix, a) == [type |-> "UpdateExpression", operator |-> op, prefix |-> prefix, argument |-> a]
FunctionExp == [type |-> "FunctionExpression"]

Declarator(id, init) == [id |-> id, init |-> init]
VarDecl(decls) == [type |-> "VariableDeclaration", declarations |-> decls]
Var1(name, init) == VarDecl(<<Declarator(Ident(name), init)>>)
ExprStmt(e) == [type |-> "ExpressionStatement", expression |-> e]
BlockStmt(body) == [type |-> "BlockStatement", body |-> body]
IfStmt(test, cons, alt, s, e) ==
    [type |-> "IfStatement", test |-> test, consequent |-> cons, alternate |-> alt,
     start |-> s, end |-> e]
WhileStmt(test, body, s, e) ==
    [type |-> "WhileStatement", test |-> test, body |-> body, start |-> s, end |-> e]
ForStmt(init, test, update, body, s, e) ==
    [type |-> "ForStatement", init |-> init, test |-> test, update |-> update,
     body |-> body, start |-> s, end |-> e]
BreakStmt == [type |-> "BreakStatement"]
ContinueStmt == [type |-> "ContinueStatement"]
SwitchStmt == [type |-> "SwitchStatement"]

\* ------------------------------------------------------------------------
\* Compiler: arguments and instructions
\* ------------------------------------------------------------------------

createNumberArgument(dst) == [type |-> "LOAD_NUMBER", value |-> dst]
createArrayArgument == [type |-> "LOAD_ARRAY"]
createUndefinedArgument == [type |-> "LOAD_UNDEFINED"]
createDependencyArgument(pointer) == [type |-> "FETCH_DEPENDENCY", value |-> pointer]
createStringArgument(value) == [type |-> "LOAD_STRING", str |-> value]
createVariableArgument(dst) == [type |-> "FETCH_VARIABLE", value |-> dst]

Instr(opcode, args) == [opcode |-> opcode, args |-> args]

\* this.dependencies, in table order (pointer = index - 1).
dependencies == <<"window", "console">>

dependenciesUnderWindow ==
    {"Array", "ArrayBuffer", "Atomics", "Boolean", "DataView", "Date", "Error",
     "EvalError", "Float32Array", "Float64Array", "Function", "Infinity", "Int16Array",
     "Int32Array", "Int8Array", "JSON", "Map", "Math", "NaN", "Number", "Object",
     "Promise", "Proxy", "RangeError", "ReferenceError", "Reflect", "RegExp", "Set",
     "String", "Symbol", "SyntaxError", "TypeError", "URIError", "Uint16Array",
     "Uint32Array", "Uint8Array", "Uint8ClampedArray", "WeakMap", "WeakSet", "alert",
     "decodeURI", "decodeURIComponent", "encodeURI", "encodeURIComponent", "escape",
     "eval", "isFinite", "isNaN", "parseFloat", "parseInt", "undefined", "unescape"}

isADependency(name) == \E i \in DOMAIN dependencies : dependencies[i] = name

isADependencyUnderWindow(name) == name \in dependenciesUnderWindow

\* Mutant of getDependencyPointer: every dependency resolves to the first entry.
getDependencyPointerFirst(name) == 0

getDependencyPointer(name) ==
    (CHOOSE i \in DOMAIN dependencies : dependencies[i] = name) - 1

getDependencyExpressionUnderWindow(node) == Member(Ident("window"), node)

\* babel.types.isPatternLike on the node kinds of the model.
isPatternLike(node) ==
    node.type \in {"Identifier", "RestElement", "AssignmentPattern", "ArrayPattern",
                   "ObjectPattern"}

\* babel.types.isExpression on the node kinds of the model.
isExpression(node) ==
    node.type \in {"NumericLiteral", "StringLiteral", "Identifier", "BinaryExpression",
                   "UnaryExpression", "AssignmentExpression", "CallExpression",
                   "MemberExpression", "ArrayExpression", "ObjectExpression",
                   "UpdateExpression", "FunctionExpression"}

\* ------------------------------------------------------------------------
\* Compiler: state.  A thrown exception is the field err; once it is set
\* every mutator below leaves the compiler as the throw left it.
\* ------------------------------------------------------------------------

MainLabel == "main"

\* The Compiler object after its constructor: one context, one block, il = {main}.
\* heap[b] is the instruction list of Block object b; allocs records, in order,
\* every evaluation of `this.contexts[0].counter++`.
NewCompiler ==
    [counter |-> 0,
     variables |-> [n \in {} |-> 0],
     blocks |-> <<1>>,
     heap |-> << <<>> >>,
     il |-> (MainLabel :> 1),
     ilKeys |-> <<MainLabel>>,
     err |-> "",
     allocs |-> <<>>]

Throw(c, e) == IF c.err = "" THEN [c EXCEPT !.err = e] ELSE c

\* Mutant of isVariableInitialized: no name is ever found declared.
isVariableInitializedNever(c, name) == FALSE

isVariableInitialized(c, name) == name \in DOMAIN c.variables

initializeVariable(c, name, dst) ==
    IF c.err # "" THEN c ELSE [c EXCEPT !.variables = (name :> dst) @@ @]

\* Mutant of Alloc: the counter is read but not advanced.
AllocNoIncrement(c, what) ==
    IF c.err # "" THEN c
    ELSE [c EXCEPT !.allocs = Append(@, [slot |-> c.counter, what |-> what])]

\* What a slot is allocated for: a declared variable, or an intermediate.
ForVariable(name) == [kind |-> "variable", of |-> name]
ForIntermediate(kind) == [kind |-> "intermediate", of |-> kind]

\* target = this.contexts[0].counter++   (the slot taken is c.counter)
Alloc(c, what) ==
    IF c.err # "" THEN c
    ELSE [c EXCEPT !.counter = @ + 1,
                   !.allocs = Append(@, [slot |-> c.counter, what |-> what])]

pushInstruction(c, instruction) ==
    IF c.err # "" THEN c
    ELSE [c EXCEPT !.heap[Head(c.blocks)] = Append(@, instruction)]

makeNewBlock(c) == IF c.err # "" THEN c ELSE [c EXCEPT !.heap = Append(@, <<>>)]

\* this.il[label] = block
SetLabel(c, label, block) ==
    IF c.err # "" THEN c
    ELSE [c EXCEPT !.il = (label :> block) @@ @,
                   !.ilKeys = IF label \in DOMAIN c.il THEN @ ELSE Append(@, label)]

\* this.blocks.unshift(block)
EnterBlock(c, block) == IF c.err # "" THEN c ELSE [c EXCEPT !.blocks = <<block>> \o @]

\* this.blocks.shift()
LeaveBlock(c) == IF c.err # "" THEN c ELSE [c EXCEPT !.blocks = Tail(@)]

appendNotInstruction(c) == pushInstruction(c, Instr("NEG", <<>>))
appendTypeofInstruction(c) == pushInstruction(c, Instr("TYPEOF", <<>>))
appendStoreInstruction(c, args) == pushInstruction(c, Instr("STORE", args))
appendGetPropertyInstruction(c) == pushInstruction(c, Instr("GET_PROPERTY", <<>>))
appendCallMemberExpression(c) == pushInstruction(c, Instr("CALL_MEMBER_EXPRESSION", <<>>))
appendPushInstruction(c, arg) == pushInstruction(c, Instr("PUSH", <<arg>>))
appendPopInstruction(c, arg) == pushInstruction(c, Instr("POP", <<arg>>))
appendCallInstruction(c) == pushInstruction(c, Instr("CALL", <<>>))
appendInitArrayInstruction(c, cnt) == pushInstruction(c, Instr("INIT_ARRAY", <<cnt>>))
appendInitObjectInstruction(c, cnt) == pushInstruction(c, Instr("INIT_OBJECT", <<cnt>>))
appendJmpInstruction(c, arg) == pushInstruction(c, Instr("JMP", <<arg>>))
appendJmpIfElseInstruction(c, arg1, arg2) ==
    pushInstruction(c, Instr("JMP_IF_ELSE", <<arg1, arg2>>))
appendLoopInstruction(c) == pushInstruction(c, Instr("LOOP", <<>>))
appendExitInstruction(c) == pushInstruction(c, Instr("EXIT", <<>>))
appendExitIfInstruction(c) == pushInstruction(c, Instr("EXIT_IF", <<>>))

\* The opcode translateBinaryExpression emits for an operator ("" : none).
BinaryOpcode(operator) ==
    CASE operator = "==" -> "EQUAL"
      [] operator = "===" -> "STRICT_EQUAL"
      [] operator = "!=" -> "NOT_EQUAL"
      [] operator = "!==" -> "STRICT_NOT_EQUAL"
      [] operator = "+" -> "ADD"
      [] operator = "-" -> "SUB"
      [] operator = "*" -> "MUL"
      [] operator = "/" -> "DIV"
      [] operator = "%" -> "MOD"
      [] operator = "<" -> "LESS_THAN"
      [] operator = "<=" -> "LESS_THAN_EQUAL"
      [] operator = ">" -> "GREATER_THAN"
      [] operator = ">=" -> "GREATER_THAN_EQUAL"
      [] operator = "<<" -> "BITWISE_LEFT_SHIFT"
      [] operator = ">>" -> "BITWISE_RIGHT_SHIFT"
      [] operator = ">>>" -> "BITWISE_UNSIGNED_RIGHT_SHIFT"
      [] operator = "&" -> "BITWISE_AND"
      [] operator = "|" -> "BITWISE_OR"
      [] operator = "^" -> "BITWISE_XOR"
      [] OTHER -> ""

\* ------------------------------------------------------------------------
\* Compiler: expression and statement lowering
\* ------------------------------------------------------------------------

\* An expression translator returns the compiler and the argument naming the value.
Ret(c, arg) == [c |-> c, arg |-> arg]

\* target = counter++; appendPopInstruction(number(target)); return variable(target)
Materialize(c, what) ==
    Ret(appendPopInstruction(Alloc(c, ForIntermediate(what)),
                             createNumberArgument(c.counter)),
        createVariableArgument(c.counter))

RECURSIVE translateExpression(_, _)
RECURSIVE translateUnaryExpression(_, _)
RECURSIVE translateBinaryExpression(_, _)
RECURSIVE pushElements(_, _, _)
RECURSIVE declareArrVariable(_, _)
RECURSIVE pushProperties(_, _, _)
RECURSIVE declareObjVariable(_, _)
RECURSIVE pushMemberExpressionOntoStack(_, _)
RECURSIVE pushCallExpressionOntoStack(_, _)
RECURSIVE translateVariableAssignment(_, _, _)
RECURSIVE translateDeclarations(_, _, _)

\* this.appendPushInstruction(this.translateExpression(...)), given the
\* translator's result r.
PushResult(r) == appendPushInstruction(r.c, r.arg)

translateUnaryExpression(c, node) ==
    LET Operator(c1) ==
            CASE node.operator = "typeof" -> appendTypeofInstruction(c1)
              [] node.operator = "!" -> appendNotInstruction(c1)
              [] OTHER -> Throw(c1, "UNSUPPORTED_UNARY_TYPE")
    IN  Operator(PushResult(translateExpression(c, node.argument)))

translateBinaryExpression(c, node) ==
    LET Operator(c2) ==
            IF BinaryOpcode(node.operator) = ""
            THEN Throw(c2, "UNHANDLED_OPERATOR_BINARY_EXPRESSION")
            ELSE pushInstruction(c2, Instr(BinaryOpcode(node.operator), <<>>))
        Pushes(left, right) ==
            Operator(appendPushInstruction(appendPushInstruction(right.c, left.arg),
                                           right.arg))
        Right(left) == Pushes(left, translateExpression(left.c, node.right))
    IN  IF node.left.type = "PrivateName" THEN Throw(c, "UNHANDLED_PRIVATE_NAME")
        ELSE Right(translateExpression(c, node.left))

\* for (let i = length - 1; i >= 0; i--) appendPushInstruction(translateExpression(argument[i]))
pushElements(c, argument, i) ==
    IF i < 1 \/ c.err # "" THEN c
    ELSE pushElements(PushResult(translateExpression(c, argument[i])), argument, i - 1)

\* Returns the compiler and, as arg, the slot number of the array.
declareArrVariable(c, argument) ==
    LET Target(c2) ==
            Ret(appendPopInstruction(Alloc(c2, ForIntermediate("array")),
                                     createNumberArgument(c2.counter)),
                c2.counter)
    IN  Target(appendInitArrayInstruction(pushElements(c, argument, Len(argument)),
                                          createNumberArgument(Len(argument))))

\* for (const i in properties) { ... cnt++ }
pushProperties(c, properties, i) ==
    LET Key(c1, property) ==
            IF property.key.type = "Identifier"
            THEN appendPushInstruction(c1, createStringArgument(property.key.name))
            ELSE PushResult(translateExpression(c1, property.key))
        Property(property) ==
            IF property.type = "ObjectProperty"
            THEN IF isPatternLike(property.value) THEN Throw(c, "UNHANDLED_VALUE")
                 ELSE pushProperties(
                          Key(PushResult(translateExpression(c, property.value)), property),
                          properties, i + 1)
            ELSE Throw(c, "UNHANDLED_PROPERTY")
    IN  IF i > Len(properties) THEN c ELSE Property(properties[i])

declareObjVariable(c, properties) ==
    LET Target(c2) ==
            Ret(appendPopInstruction(Alloc(c2, ForIntermediate("object")),
                                     createNumberArgument(c2.counter)),
                c2.counter)
    IN  Target(appendInitObjectInstruction(pushProperties(c, properties, 1),
                                           createNumberArgument(Len(properties))))

pushMemberExpressionOntoStack(c, node) ==
    LET Property(c1) ==
            IF node.property.type = "Identifier"
            THEN appendPushInstruction(c1, createStringArgument(node.property.name))
            ELSE IF isExpression(node.property)
                 THEN PushResult(translateExpression(c1, node.property))
                 ELSE Throw(c1, "UNHANDLED_PROPERTY_TYPE")
    IN  Property(PushResult(translateExpression(c, node.object)))

pushCallExpressionOntoStack(c, node) ==
    LET Callee(a) ==
            CASE node.callee.type = "MemberExpression" ->
                   appendCallMemberExpression(
                       appendPushInstruction(
                           pushMemberExpressionOntoStack(a.c, node.callee),
                           createVariableArgument(a.arg)))
              [] node.callee.type = "Identifier" ->
                   appendCallInstruction(
                       appendPushInstruction(
                           PushResult(translateExpression(a.c, node.callee)),
                           createVariableArgument(a.arg)))
              [] OTHER -> Throw(a.c, "UNHANDLED_CALL_EXPRESSION_TYPE")
    IN  appendPopInstruction(Callee(declareArrVariable(c, node.arguments)),
                             createUndefinedArgument)

translateVariableAssignment(c, node, value) ==
    LET Store(reg, v) == appendStoreInstruction(v.c, <<createNumberArgument(reg), v.arg>>)
    IN  IF node.type # "Identifier" THEN Throw(c, "UNHANDLED_VARIABLE_DECL_ID")
        ELSE IF ~isVariableInitialized(c, node.name) THEN Throw(c, "VARIABLE_NOT_DEFINED")
        ELSE Store(c.variables[node.name], translateExpression(c, value))

\* Mutant of VariableResult: a name without a slot is not reported.
VariableResultUnchecked(c, name) ==
    Ret(c, IF name \in DOMAIN c.variables THEN createVariableArgument(c.variables[name])
           ELSE createUndefinedArgument)

\* The argument naming a declared variable, as the Identifier case computes it.
VariableResult(c, name) ==
    IF name \notin DOMAIN c.variables
    THEN Ret(Throw(c, "UNKNOWN_SOURCE_VARIABLE"), createUndefinedArgument)
    ELSE Ret(c, createVariableArgument(c.variables[name]))

\* An array or object literal: the argument is the variable of its slot.
SlotResult(r) == Ret(r.c, createVariableArgument(r.arg))

translateExpression(c, node) ==
    CASE node.type = "PrivateName" -> Ret(Throw(c, "UNSUPPORTED_PRIVATE_NAME"), createUndefinedArgument)
      [] node.type = "null" -> Ret(c, createUndefinedArgument)
      [] node.type = "UnaryExpression" ->
           Materialize(translateUnaryExpression(c, node), "unary")
      [] node.type = "AssignmentExpression" ->
           Materialize(translateVariableAssignment(c, node.left, node.right), "assignment")
      [] node.type = "CallExpression" ->
           Materialize(pushCallExpressionOntoStack(c, node), "call")
      [] node.type = "MemberExpression" ->
           Materialize(appendGetPropertyInstruction(pushMemberExpressionOntoStack(c, node)),
                       "member")
      [] node.type = "BinaryExpression" ->
           Materialize(translateBinaryExpression(c, node), "binary")
      [] node.type = "StringLiteral" -> Ret(c, createStringArgument(node.str))
      [] node.type = "Identifier" ->
           IF isADependency(node.name)
           THEN Ret(c, createDependencyArgument(getDependencyPointer(node.name)))
           ELSE IF isADependencyUnderWindow(node.name)
           THEN translateExpression(c, getDependencyExpressionUnderWindow(node))
           ELSE VariableResult(c, node.name)
      [] node.type = "NumericLiteral" -> Ret(c, createNumberArgument(node.value))
      [] node.type = "ArrayExpression" -> SlotResult(declareArrVariable(c, node.elements))
      [] node.type = "ObjectExpression" -> SlotResult(declareObjVariable(c, node.properties))
      [] node.type = "UpdateExpression" ->
           LET expression ==
                   Bin(IF node.operator = "++" THEN "+" ELSE "-", node.argument, NumLit(1))
           IN  IF node.argument.type # "Identifier"
               THEN Ret(Throw(c, "INVALID_UPDATE"), createUndefinedArgument)
               ELSE IF node.prefix
               THEN VariableResult(
                        translateVariableAssignment(c, node.argument, expression),
                        node.argument.name)
               ELSE Materialize(
                        translateVariableAssignment(
                            PushResult(translateExpression(c, node.argument)),
                            node.argument, expression),
                        "postfix")
      [] OTHER -> Ret(Throw(c, "UNHANDLED_VALUE"), createUndefinedArgument)

\* `while_${node.start}:${node.end}` and its siblings.
SpanLabel(kind, node) == kind \o "_" \o PosStr(node.start) \o ":" \o PosStr(node.end)

\* The statement list of a loop body or branch.
BodyOf(node) == IF node.type = "BlockStatement" THEN node.body ELSE <<node>>

\* block = makeNewBlock(), given the compiler c0 that holds the new block:
\* the block's id.
NewBlock(c0) == Len(c0.heap)

\* appendJmpInstruction(label); this.il[label] = block; this.blocks.unshift(block)
JmpInto(c, label, block) ==
    EnterBlock(SetLabel(appendJmpInstruction(c, createStringArgument(label)), label, block),
               block)

\* push(test); NOT; EXIT_IF
ExitUnless(r) == appendExitIfInstruction(appendNotInstruction(PushResult(r)))

\* node.declarations.forEach(declaration => ...), from declaration i on.
translateDeclarations(c, declarations, i) ==
    LET Store(target, v) ==
            appendStoreInstruction(v.c, <<createNumberArgument(target), v.arg>>)
        Declaration(declaration) ==
            IF declaration.id.type # "Identifier"
            THEN Throw(c, "UNHANDLED_VARIABLE_DECL_ID")
            ELSE IF isVariableInitialized(c, declaration.id.name)
            THEN translateVariableAssignment(c, declaration.id, declaration.init)
            ELSE Store(c.counter,
                       translateExpression(
                           initializeVariable(Alloc(c, ForVariable(declaration.id.name)),
                                              declaration.id.name, c.counter),
                           declaration.init))
    IN  IF i > Len(declarations) THEN c
        ELSE translateDeclarations(Declaration(declarations[i]), declarations, i + 1)

translateVariableDeclaration(c, node) == translateDeclarations(c, node.declarations, 1)

\* A statement that holds no other statement: everything buildIL's forEach does
\* for it.
buildStatement(c, statement) ==
    CASE statement.type = "VariableDeclaration" -> translateVariableDeclaration(c, statement)
      [] statement.type = "ExpressionStatement" ->
           CASE statement.expression.type = "CallExpression" ->
                  appendPopInstruction(
                      pushCallExpressionOntoStack(c, statement.expression),
                      createUndefinedArgument)
             [] statement.expression.type = "AssignmentExpression" ->
                  translateVariableAssignment(c, statement.expression.left,
                                              statement.expression.right)
             [] statement.expression.type = "UpdateExpression" ->
                  appendPopInstruction(translateExpression(c, statement.expression).c,
                                       createUndefinedArgument)
             [] OTHER -> Throw(c, "UNHANDLED_EXPRESSION_STATEMENT")
      [] statement.type = "BreakStatement" -> appendExitInstruction(c)
      [] statement.type = "ContinueStatement" -> appendLoopInstruction(c)
      [] OTHER -> Throw(c, "UNHANDLED_NODE")

\* translateWhileLoop, up to the buildIL of the body.
translateWhileLoopEnter(c, node) ==
    LET Block(c0) ==
            ExitUnless(translateExpression(
                           JmpInto(c0, SpanLabel("while", node), NewBlock(c0)),
                           node.test))
    IN  Block(makeNewBlock(c))

\* translateForLoop, up to the buildIL of the body.
translateForLoopEnter(c, node) ==
    LET Initializer(c0) ==
            IF node.init.type = "null" THEN c0
            ELSE IF node.init.type = "VariableDeclaration" THEN buildStatement(c0, node.init)
            ELSE IF isExpression(node.init) THEN buildStatement(c0, ExprStmt(node.init))
            ELSE c0
        Test(c3) ==
            IF node.test.type = "null" THEN c3
            ELSE ExitUnless(translateExpression(c3, node.test))
        Block(c0) ==
            Test(JmpInto(Initializer(c0), SpanLabel("for", node), NewBlock(c0)))
    IN  Block(makeNewBlock(c))

\* Mutant of translateLoopLeave: the loop block is closed like a branch.
translateLoopLeaveExit(c) == LeaveBlock(appendExitInstruction(c))

\* this.appendLoopInstruction(); this.blocks.shift()
translateLoopLeave(c) == LeaveBlock(appendLoopInstruction(c))

\* translateIfStatement, up to the buildIL of the consequent.
translateIfStatementEnter(c, node) ==
    LET if_label == SpanLabel("if", node)
        else_label == SpanLabel("else", node)
        Jump(c1) ==
            IF node.alternate.type = "null"
            THEN appendJmpIfElseInstruction(c1, createStringArgument(if_label),
                                            createUndefinedArgument)
            ELSE appendJmpIfElseInstruction(c1, createStringArgument(if_label),
                                            createStringArgument(else_label))
        Block(c0) ==
            EnterBlock(SetLabel(Jump(PushResult(translateExpression(c0, node.test))),
                                if_label, NewBlock(c0)),
                       NewBlock(c0))
    IN  Block(makeNewBlock(c))

\* translateIfStatement, from the end of the consequent to the buildIL of the
\* alternate (to the return, when there is no alternate).
translateIfStatementElse(c, node) ==
    LET Block(c5) == EnterBlock(SetLabel(c5, SpanLabel("else", node), NewBlock(c5)),
                                NewBlock(c5))
        Alternate(c4) ==
            IF node.alternate.type = "null" THEN c4 ELSE Block(makeNewBlock(c4))
    IN  Alternate(LeaveBlock(appendExitInstruction(c)))

\* this.appendExitInstruction(); this.blocks.shift()
translateIfStatementLeave(c) == LeaveBlock(appendExitInstruction(c))

\* What buildIL has still to do is a list of items, the next one first.
Item(k, node, top) == [k |-> k, node |-> node, top |-> top]

\* statements.forEach(statement => ...): one item per statement.  top: the
\* statement is one of the program body.
Statements(statements, top) ==
    [i \in DOMAIN statements |-> Item("statement", statements[i], top)]

IsCompound(statement) ==
    statement.type \in {"IfStatement", "WhileStatement", "ForStatement"}

\* What the item does to the compiler.
Work(c, item) ==
    CASE item.k = "statement" /\ item.node.type = "IfStatement" ->
           translateIfStatementEnter(c, item.node)
      [] item.k = "statement" /\ item.node.type = "WhileStatement" ->
           translateWhileLoopEnter(c, item.node)
      [] item.k = "statement" /\ item.node.type = "ForStatement" ->
           translateForLoopEnter(c, item.node)
      [] item.k = "statement" -> buildStatement(c, item.node)
      [] item.k = "loop_end" -> translateLoopLeave(c)
      [] item.k = "if_end" -> translateIfStatementElse(c, item.node)
      [] OTHER -> translateIfStatementLeave(c)

\* The items the item puts in front of the others.
Then(item) ==
    CASE item.k = "statement" /\ item.node.type = "IfStatement" ->
           Statements(BodyOf(item.node.consequent), FALSE)
           \o <<Item("if_end", item.node, item.top)>>
      [] item.k = "statement" /\ item.node.type = "WhileStatement" ->
           Statements(BodyOf(item.node.body), FALSE)
           \o <<Item("loop_end", item.node, item.top)>>
      [] item.k = "statement" /\ item.node.type = "ForStatement" ->
           Statements(BodyOf(item.node.body), FALSE)
           \o (IF item.node.update.type = "null" THEN <<>>
               ELSE <<Item("statement", ExprStmt(item.node.update), FALSE)>>)
           \o <<Item("loop_end", item.node, item.top)>>
      [] item.k = "if_end" /\ item.node.alternate.type # "null" ->
           Statements(BodyOf(item.node.alternate), FALSE)
           \o <<Item("else_end", item.node, item.top)>>
      [] OTHER -> <<>>

\* The item ends a statement of the program body.
EndsTop(item) ==
    /\ item.top
    /\ \/ item.k = "statement" /\ ~IsCompound(item.node)
       \/ item.k \in {"loop_end", "else_end"}
       \/ item.k = "if_end" /\ item.node.alternate.type = "null"

\* The IL object as a caller sees it: label -> instruction list.
ILOf(c) == [l \in DOMAIN c.il |-> c.heap[c.il[l]]]

\* ------------------------------------------------------------------------
\* Run-time values of the host language, as the VM's handlers see them.
\* A finite number is the reduced fraction n/d (d >= 1).  Negative zero and
\* the rounding of doubles are not represented.
\* ------------------------------------------------------------------------

Abs(i) == IF i < 0 THEN -i ELSE i

RECURSIVE Gcd(_, _)
Gcd(a, b) == IF b = 0 THEN a ELSE Gcd(b, a % b)

NaNV == [t |-> "nan"]
Inf(sign) == [t |-> "inf", sign |-> sign]
\* p/q with q # 0, reduced
Rat(p, q) ==
    LET g == Gcd(Abs(p), Abs(q))
        sg == IF q < 0 THEN -1 ELSE 1
    IN  [t |-> "num", n |-> sg * (p \div g), d |-> Abs(q) \div g]
Num(i) == [t |-> "num", n |-> i, d |-> 1]
Str(s) == [t |-> "str", s |-> s]
Bool(b) == [t |-> "bool", b |-> b]
Undef == [t |-> "undef"]
ArrV(id, a) == [t |-> "arr", id |-> id, a |-> a]
ObjV(id) == [t |-> "obj", id |-> id]
\* a host function, by its global name
Fn(name) == [t |-> "fn", name |-> name]
\* a host object the model does not look into
Host(name) == [t |-> "host", name |-> name]
\* globalThis
Window == Host("window")
\* the VM instance, when it is passed to host code as a receiver
VMInstance == Host("vm")

IsNumeric(v) == v.t \in {"num", "nan", "inf"}
IsObject(v) == v.t \in {"arr", "obj", "fn", "host"}

IntStr(i) == IF i < 0 THEN "-" \o NatStr(-i) ELSE NatStr(i)

RECURSIVE ToStr(_)
RECURSIVE ArrJoin(_, _)
\* Array.prototype.join(","): undefined elements print as the empty string.
ArrJoin(a, i) ==
    IF i > Len(a) THEN ""
    ELSE (IF i > 1 THEN "," ELSE "")
         \o (IF a[i].t = "undef" THEN "" ELSE ToStr(a[i]))
         \o ArrJoin(a, i + 1)

\* String(v).  A non-integer number prints as n/d here, not as its decimal expansion.
ToStr(v) ==
    CASE v.t = "num" -> IF v.d = 1 THEN IntStr(v.n) ELSE IntStr(v.n) \o "/" \o NatStr(v.d)
      [] v.t = "nan" -> "NaN"
      [] v.t = "inf" -> IF v.sign < 0 THEN "-Infinity" ELSE "Infinity"
      [] v.t = "str" -> v.s
      [] v.t = "bool" -> IF v.b THEN "true" ELSE "false"
      [] v.t = "undef" -> "undefined"
      [] v.t = "arr" -> ArrJoin(v.a, 1)
      [] v.t = "obj" -> "[object Object]"
      [] v.t = "fn" -> "function " \o v.name \o "() { [native code] }"
      [] OTHER -> "[object " \o v.name \o "]"

ToPrimitive(v) == IF IsObject(v) THEN Str(ToStr(v)) ELSE v

IsDigit(ch) == \E i \in DOMAIN Digits : Digits[i] = ch
DigitVal(ch) == (CHOOSE i \in DOMAIN Digits : Digits[i] = ch) - 1

AllDigits(s) == \A i \in 1..Len(s) : IsDigit(SubSeq(s, i, i))

RECURSIVE DigitsVal(_, _)
DigitsVal(s, acc) ==
    IF Len(s) = 0 THEN acc
    ELSE DigitsVal(SubSeq(s, 2, Len(s)), acc * 10 + DigitVal(SubSeq(s, 1, 1)))

\* Number(s) for a string: integers, Infinity, the empty string; anything else NaN.
StrToNumber(s) ==
    IF Len(s) = 0 THEN Num(0)
    ELSE IF AllDigits(s) THEN Num(DigitsVal(s, 0))
    ELSE IF SubSeq(s, 1, 1) = "-" /\ Len(s) > 1 /\ AllDigits(SubSeq(s, 2, Len(s)))
         THEN Num(-DigitsVal(SubSeq(s, 2, Len(s)), 0))
    ELSE IF s = "Infinity" THEN Inf(1)
    ELSE IF s = "-Infinity" THEN Inf(-1)
    ELSE NaNV

ToNumber(v) ==
    LET p == ToPrimitive(v)
    IN  CASE IsNumeric(p) -> p
          [] p.t = "undef" -> NaNV
          [] p.t = "bool" -> IF p.b THEN Num(1) ELSE Num(0)
          [] OTHER -> StrToNumber(p.s)

ToBoolean(v) ==
    CASE v.t = "num" -> v.n # 0
      [] v.t = "nan" -> FALSE
      [] v.t = "str" -> Len(v.s) > 0
      [] v.t = "bool" -> v.b
      [] v.t = "undef" -> FALSE
      [] OTHER -> TRUE

Sign(x) == IF x.t = "inf" THEN x.sign ELSE IF x.n < 0 THEN -1 ELSE IF x.n > 0 THEN 1 ELSE 0

NumAdd(x, y) ==
    CASE x.t = "nan" \/ y.t = "nan" -> NaNV
      [] x.t = "inf" /\ y.t = "inf" -> IF x.sign = y.sign THEN x ELSE NaNV
      [] x.t = "inf" -> x
      [] y.t = "inf" -> y
      [] OTHER -> Rat(x.n * y.d + y.n * x.d, x.d * y.d)

NumNeg(x) ==
    CASE x.t = "nan" -> NaNV
      [] x.t = "inf" -> Inf(-x.sign)
      [] OTHER -> Rat(-x.n, x.d)

NumMul(x, y) ==
    CASE x.t = "nan" \/ y.t = "nan" -> NaNV
      [] x.t = "inf" \/ y.t = "inf" ->
           IF Sign(x) * Sign(y) = 0 THEN NaNV ELSE Inf(Sign(x) * Sign(y))
      [] OTHER -> Rat(x.n * y.n, x.d * y.d)

NumDiv(x, y) ==
    CASE x.t = "nan" \/ y.t = "nan" -> NaNV
      [] x.t = "inf" /\ y.t = "inf" -> NaNV
      [] x.t = "inf" -> Inf(IF Sign(y) < 0 THEN -x.sign ELSE x.sign)
      [] y.t = "inf" -> Num(0)
      [] y.n = 0 -> IF x.n = 0 THEN NaNV ELSE Inf(Sign(x))
      [] OTHER -> Rat(x.n * y.d, x.d * y.n)

\* The remainder takes the sign of the dividend (truncated division).
NumMod(x, y) ==
    CASE x.t = "nan" \/ y.t = "nan" -> NaNV
      [] x.t = "inf" -> NaNV
      [] y.t = "inf" -> x
      [] y.n = 0 -> NaNV
      [] OTHER ->
           LET a == Abs(x.n) * y.d
               b == Abs(y.n) * x.d
               r == a % b
           IN  Rat(Sign(x) * r, x.d * y.d)

NumLess(x, y) ==
    CASE x.t = "nan" \/ y.t = "nan" -> FALSE
      [] x.t = "inf" -> x.sign < 0 /\ ~(y.t = "inf" /\ y.sign < 0)
      [] y.t = "inf" -> y.sign > 0
      [] OTHER -> x.n * y.d < y.n * x.d

\* arg$1 + arg$2
JsAdd(a, b) ==
    LET pa == ToPrimitive(a)
        pb == ToPrimitive(b)
    IN  IF pa.t = "str" \/ pb.t = "str"
        THEN Str(ToStr(pa) \o ToStr(pb))
        ELSE NumAdd(ToNumber(pa), ToNumber(pb))

JsSub(a, b) == NumAdd(ToNumber(a), NumNeg(ToNumber(b)))
JsMul(a, b) == NumMul(ToNumber(a), ToNumber(b))
JsDiv(a, b) == NumDiv(ToNumber(a), ToNumber(b))
JsMod(a, b) == NumMod(ToNumber(a), ToNumber(b))

\* a === b
StrictEquals(a, b) ==
    CASE a.t = "nan" \/ b.t = "nan" -> FALSE
      [] IsNumeric(a) /\ IsNumeric(b) -> a = b
      [] a.t # b.t -> FALSE
      [] a.t \in {"arr", "obj"} -> a.id = b.id
      [] OTHER -> a = b

\* a == b
LooseEquals(a, b) ==
    CASE (IsNumeric(a) /\ IsNumeric(b)) \/ (a.t = b.t /\ ~IsNumeric(a)) -> StrictEquals(a, b)
      [] a.t = "undef" \/ b.t = "undef" -> FALSE
      [] IsObject(a) /\ IsObject(b) -> FALSE
      [] IsObject(a) \/ IsObject(b) ->
           LET pa == ToPrimitive(a)
               pb == ToPrimitive(b)
           IN  IF pa.t = "str" /\ pb.t = "str" THEN pa.s = pb.s
               ELSE StrictEquals(ToNumber(pa), ToNumber(pb))
      [] OTHER -> StrictEquals(ToNumber(a), ToNumber(b))

\* typeof v
TypeOf(v) ==
    CASE IsNumeric(v) -> "number"
      [] v.t = "str" -> "string"
      [] v.t = "bool" -> "boolean"
      [] v.t = "undef" -> "undefined"
      [] v.t = "fn" -> "function"
      [] OTHER -> "object"

\* ------------------------------------------------------------------------
\* The host: properties of values and the global functions compiled code can
\* reach.  A call the model does not describe ends the run as "UNMODELLED".
\* ------------------------------------------------------------------------

ObjectGlobals == {"Math", "JSON", "Reflect", "Atomics"}
FunctionGlobals == dependenciesUnderWindow \ (ObjectGlobals \cup {"Infinity", "NaN", "undefined"})
NonConstructors ==
    {"isNaN", "isFinite", "parseInt", "parseFloat", "decodeURI", "decodeURIComponent",
     "encodeURI", "encodeURIComponent", "escape", "unescape", "eval", "alert", "Symbol",
     "console.log"}

\* globalThis[key]
WindowGet(key) ==
    CASE key = "undefined" -> Undef
      [] key = "NaN" -> NaNV
      [] key = "Infinity" -> Inf(1)
      [] key \in FunctionGlobals -> Fn(key)
      [] key \in ObjectGlobals -> Host(key)
      [] key = "console" -> Host("console")
      [] key = "globalThis" -> Window
      [] OTHER -> Undef

\* The property key a value is coerced to.
PropertyKey(v) == ToStr(ToPrimitive(v))

IsIndex(key) == Len(key) > 0 /\ AllDigits(key) /\ NatStr(DigitsVal(key, 0)) = key

\* base[property]; err is "TypeError" when base is undefined.
GetProperty(base, property) ==
    LET key == PropertyKey(property)
        val == CASE base.t = "host" /\ base.name = "window" -> WindowGet(key)
                 [] base.t = "host" /\ base.name = "console" /\ key = "log" -> Fn("console.log")
                 [] base.t = "str" /\ key = "length" -> Num(Len(base.s))
                 [] base.t = "str" /\ IsIndex(key) ->
                      IF DigitsVal(key, 0) < Len(base.s)
                      THEN Str(SubSeq(base.s, DigitsVal(key, 0) + 1, DigitsVal(key, 0) + 1))
                      ELSE Undef
                 [] base.t = "arr" /\ key = "length" -> Num(Len(base.a))
                 [] base.t = "arr" /\ IsIndex(key) ->
                      IF DigitsVal(key, 0) < Len(base.a) THEN base.a[DigitsVal(key, 0) + 1]
                      ELSE Undef
                 [] OTHER -> Undef
    IN  IF base.t = "undef" THEN [val |-> Undef, err |-> "TypeError"]
        ELSE [val |-> val, err |-> ""]

Chars(s) == [i \in 1..Len(s) |-> Str(SubSeq(s, i, i))]

\* The values `...v` spreads; ok is FALSE when v is not iterable.
Spread(v) ==
    CASE v.t = "arr" -> [ok |-> TRUE, list |-> v.a]
      [] v.t = "str" -> [ok |-> TRUE, list |-> Chars(v.s)]
      [] OTHER -> [ok |-> FALSE, list |-> <<>>]

\* The argument list Function.prototype.apply builds from its second argument.
ArrayLike(v) ==
    CASE v.t = "undef" -> [ok |-> TRUE, list |-> <<>>]
      [] v.t = "arr" -> [ok |-> TRUE, list |-> v.a]
      [] v.t \in {"obj", "fn", "host"} -> [ok |-> TRUE, list |-> <<>>]
      [] OTHER -> [ok |-> FALSE, list |-> <<>>]

Arg(args, i) == IF i <= Len(args) THEN args[i] ELSE Undef

LeadingDigits(s) ==
    SubSeq(s, 1, CHOOSE k \in 0..Len(s) :
                     /\ AllDigits(SubSeq(s, 1, k))
                     /\ (k < Len(s) => ~IsDigit(SubSeq(s, k + 1, k + 1))))

\* parseInt(s) in radix 10 on a string without leading blanks
ParseInt(s) ==
    LET neg == Len(s) > 0 /\ SubSeq(s, 1, 1) = "-"
        body == IF neg THEN SubSeq(s, 2, Len(s)) ELSE s
        ds == LeadingDigits(body)
    IN  IF Len(ds) = 0 THEN NaNV
        ELSE Num((IF neg THEN -1 ELSE 1) * DigitsVal(ds, 0))

\* new Array(...args) and Array(...args); id is the identity of the new array.
MakeArray(args, id) ==
    IF Len(args) = 1 /\ IsNumeric(args[1])
    THEN IF args[1].t = "num" /\ args[1].d = 1 /\ args[1].n >= 0
         THEN [val |-> ArrV(id, [i \in 1..args[1].n |-> Undef]), err |-> ""]
         ELSE [val |-> Undef, err |-> "RangeError"]
    ELSE [val |-> ArrV(id, args), err |-> ""]

\* The result of calling host function `name` with receiver `this` on `args`.
HostCall(name, this, args, id) ==
    CASE name = "isNaN" -> [val |-> Bool(ToNumber(Arg(args, 1)).t = "nan"), err |-> ""]
      [] name = "isFinite" -> [val |-> Bool(ToNumber(Arg(args, 1)).t = "num"), err |-> ""]
      [] name = "parseInt" -> [val |-> ParseInt(ToStr(Arg(args, 1))), err |-> ""]
      [] name = "String" -> [val |-> Str(IF args = <<>> THEN "" ELSE ToStr(args[1])), err |-> ""]
      [] name = "Number" -> [val |-> IF args = <<>> THEN Num(0) ELSE ToNumber(args[1]), err |-> ""]
      [] name = "Boolean" -> [val |-> Bool(ToBoolean(Arg(args, 1))), err |-> ""]
      [] name = "Array" -> MakeArray(args, id)
      [] name = "console.log" -> [val |-> Undef, err |-> ""]
      [] OTHER -> [val |-> Undef, err |-> "UNMODELLED"]

\* new c(val)
Construct(c, val, id) ==
    IF c.t # "fn" \/ c.name \in NonConstructors THEN [val |-> Undef, err |-> "TypeError"]
    ELSE IF c.name = "Array" THEN MakeArray(<<val>>, id)
    ELSE [val |-> Undef, err |-> "UNMODELLED"]

\* ------------------------------------------------------------------------
\* The binary contract: opcode and header numbers
\* ------------------------------------------------------------------------

\* The opcodes the VM registers a handler for, with the numbers it registers them at.
Opcode ==
    [ADD |-> 0, SUB |-> 1, MUL |-> 2, DIV |-> 3, MOD |-> 4, NEG |-> 5, STORE |-> 6,
     GET_PROPERTY |-> 7, TYPEOF |-> 12, CALL |-> 13, EQUAL |-> 14,
     STRICT_NOT_EQUAL |-> 19, JMP_IF |-> 22, NOT |-> 23, PUSH |-> 24, POP |-> 25,
     INIT_CONSTRUCTOR |-> 26, INIT_ARRAY |-> 27, EXIT |-> 28, AND |-> 35, APPLY |-> 36,
     CALL_MEMBER_EXPRESSION |-> 37]

\* The opcodes the compiler names and the VM does not.  Their numbers are set in
\* the constant module; all that matters here is that no handler is registered
\* under them.
UnregisteredOpcode ==
    [STRICT_EQUAL |-> 40, NOT_EQUAL |-> 41, LESS_THAN |-> 42, LESS_THAN_EQUAL |-> 43,
     GREATER_THAN |-> 44, GREATER_THAN_EQUAL |-> 45, BITWISE_LEFT_SHIFT |-> 46,
     BITWISE_RIGHT_SHIFT |-> 47, BITWISE_UNSIGNED_RIGHT_SHIFT |-> 48, BITWISE_AND |-> 49,
     BITWISE_OR |-> 50, BITWISE_XOR |-> 51, INIT_OBJECT |-> 52, JMP |-> 53,
     JMP_NO_TRACEBACK |-> 54, JMP_IF_ELSE |-> 55, LOOP |-> 56, EXIT_IF |-> 57]

OpcodeByte(name) ==
    IF name \in DOMAIN Opcode THEN Opcode[name] ELSE UnregisteredOpcode[name]

\* The header tags getValue switches on.
Header ==
    [LOAD_STRING |-> 0, LOAD_NUMBER |-> 1, POP_STACK |-> 2, FETCH_VARIABLE |-> 3,
     FETCH_DEPENDENCY |-> 4, LOAD_ARRAY |-> 6, LOAD_OBJECT |-> 7]

\* The tag of the undefined sentinel: the one tag getValue has no case for.
UndefinedHeader == [LOAD_UNDEFINED |-> 5]

HeaderByte(name) == IF name \in DOMAIN Header THEN Header[name] ELSE UndefinedHeader[name]

\* ------------------------------------------------------------------------
\* Encoder: serialises an IL (label -> instructions, in key order) into the
\* byte stream, the string table and the lookup table the VM is built from.
\* Each instruction is its opcode byte followed by its arguments, each a header
\* byte and the payload getValue reads back for that header.
\* ------------------------------------------------------------------------

RECURSIVE LongToByteArray(_, _)
\* k bytes of n, least significant first: the inverse of byteArrayToLong.
LongToByteArray(n, k) ==
    IF k = 0 THEN <<>> ELSE <<n % 256>> \o LongToByteArray(n \div 256, k - 1)

RECURSIVE Flatten(_)
\* The concatenation of a sequence of sequences (by halves).
Flatten(ss) ==
    IF Len(ss) = 0 THEN <<>>
    ELSE IF Len(ss) = 1 THEN ss[1]
    ELSE Flatten(SubSeq(ss, 1, Len(ss) \div 2))
         \o Flatten(SubSeq(ss, Len(ss) \div 2 + 1, Len(ss)))

IndexOf(seq, x) == CHOOSE i \in DOMAIN seq : seq[i] = x

\* The sequence without the repetitions of its elements: first occurrences, in order.
Dedup(seq) ==
    LET first == {i \in DOMAIN seq : \A j \in 1..(i - 1) : seq[j] # seq[i]}
    IN  [k \in 1..Cardinality(first) |->
            seq[CHOOSE i \in first : Cardinality({j \in first : j <= i}) = k]]

IsStringArgument(arg) == arg.type = "LOAD_STRING"

\* The string literals of a sequence of arguments, in order.
StringArgs(args) ==
    LET strs == SelectSeq(args, IsStringArgument)
    IN  [i \in DOMAIN strs |-> strs[i].str]

\* All instructions of the IL, block after block in key order.
AllInstructions(il) == Flatten([i \in DOMAIN il.keys |-> il.blocks[il.keys[i]]])

StringTable(il) ==
    LET ins == AllInstructions(il)
    IN  Dedup(StringArgs(Flatten([i \in DOMAIN ins |-> ins[i].args])))

EncodeArgument(arg, strs) ==
    CASE arg.type = "LOAD_STRING" ->
           <<HeaderByte(arg.type)>> \o LongToByteArray(IndexOf(strs, arg.str) - 1, 8)
      [] arg.type = "LOAD_NUMBER" -> <<HeaderByte(arg.type)>> \o LongToByteArray(arg.value, 8)
      [] arg.type \in {"FETCH_VARIABLE", "FETCH_DEPENDENCY"} ->
           <<HeaderByte(arg.type), arg.value % 256>>
      [] OTHER -> <<HeaderByte(arg.type)>>

EncodeInstruction(ins, strs) ==
    <<OpcodeByte(ins.opcode)>>
    \o Flatten([i \in DOMAIN ins.args |-> EncodeArgument(ins.args[i], strs)])

EncodeBlock(instrs, strs) ==
    Flatten([i \in DOMAIN instrs |-> EncodeInstruction(instrs[i], strs)])

\* Byte offset of block number k of the key order (main, the first, is at 0).
BlockOffset(il, strs, k) ==
    SeqSum([i \in 1..(k - 1) |-> Len(EncodeBlock(il.blocks[il.keys[i]], strs))])

\* The container handed to the VM's constructor.
Encode(il) ==
    LET strs == StringTable(il)
    IN  [bytecode |-> Flatten([i \in DOMAIN il.keys |->
                                   EncodeBlock(il.blocks[il.keys[i]], strs)]),
         strings |-> strs,
         lookUpTable |-> [l \in Range(il.keys) |->
                              BlockOffset(il, strs, IndexOf(il.keys, l))]]

\* ------------------------------------------------------------------------
\* Virtual machine: the object and its operand decoding
\* ------------------------------------------------------------------------

BaseContinuation == [k |-> "base"]
Resume(pc) == [k |-> "resume", pc |-> pc]

\* The VM object after its constructor.  localVariables maps property keys
\* (the decimal index of a slot, or a name) to values; nextId numbers the arrays
\* and objects the run creates.
NewVM(image) ==
    [bytecode |-> image.bytecode,
     strings |-> image.strings,
     dependencies |-> <<Window, Str("console")>>,
     stack |-> <<>>,
     localVariables |-> [key \in {} |-> Undef],
     lookUpTable |-> image.lookUpTable,
     exitToPreviousContext |-> <<BaseContinuation>>,
     programCounter |-> 0,
     nextId |-> 1]

\* The VM variable before a VM is constructed.
NoVM == NewVM([bytecode |-> <<>>, strings |-> <<>>, lookUpTable |-> [l \in {} |-> 0]])

\* this.bytecode[i]; a read past the end gives undefined, here -1.
ByteAt(m, i) == IF i >= 0 /\ i < Len(m.bytecode) THEN m.bytecode[i + 1] ELSE -1

\* Mutant of load8ByteArray: only the first byte is read, the rest are zero.
load8ByteArrayFirst(m) ==
    [i \in 1..8 |-> IF i > 1 \/ ByteAt(m, m.programCounter) < 0 THEN 0
                    ELSE ByteAt(m, m.programCounter)]

\* load8ByteArray: eight bytes from the program counter on; Uint8Array.from
\* turns a read past the end into 0.
load8ByteArray(m) ==
    [i \in 1..8 |-> IF ByteAt(m, m.programCounter + i - 1) < 0 THEN 0
                    ELSE ByteAt(m, m.programCounter + i - 1)]

Reverse(seq) == [i \in 1..Len(seq) |-> seq[Len(seq) + 1 - i]]

RECURSIVE Reduce256(_, _)
\* byteArray.reduce((previous, current) => previous * 256 + current), from acc on.
Reduce256(seq, acc) ==
    IF seq = <<>> THEN acc ELSE Reduce256(Tail(seq), acc * 256 + Head(seq))

byteArrayToLong(byteArray) ==
    LET r == Reverse(byteArray) IN Reduce256(Tail(r), Head(r))

\* Element i (from 0) of a host array, undefined outside it.
Elem(seq, i) == IF i >= 0 /\ i < Len(seq) THEN seq[i + 1] ELSE Undef

\* vm.stack[vm.stack.length - k]
Top(m, k) == Elem(m.stack, Len(m.stack) - k)

\* localVariables[key]
Local(m, key) == IF key \in DOMAIN m.localVariables THEN m.localVariables[key] ELSE Undef

\* getValue: the value, the VM after the read, and the error thrown if any.
getValue(m) ==
    LET header == ByteAt(m, m.programCounter)
        m1 == [m EXCEPT !.programCounter = @ + 1]
        m9 == [m1 EXCEPT !.programCounter = @ + 8]
        m2 == [m1 EXCEPT !.programCounter = @ + 1]
    IN  CASE header = Header.LOAD_STRING ->
               LET stringPointer == byteArrayToLong(load8ByteArray(m1))
               IN  [val |-> IF stringPointer < Len(m.strings)
                            THEN Str(m.strings[stringPointer + 1]) ELSE Undef,
                    vm |-> m9, err |-> ""]
          [] header = Header.LOAD_ARRAY ->
               [val |-> ArrV(m.nextId, <<>>), vm |-> [m1 EXCEPT !.nextId = @ + 1], err |-> ""]
          [] header = Header.LOAD_OBJECT ->
               [val |-> ObjV(m.nextId), vm |-> [m1 EXCEPT !.nextId = @ + 1], err |-> ""]
          [] header = Header.LOAD_NUMBER ->
               [val |-> Num(byteArrayToLong(load8ByteArray(m1))), vm |-> m9, err |-> ""]
          [] header = Header.POP_STACK ->
               IF m.stack = <<>>
               THEN [val |-> Undef, vm |-> m1, err |-> "RangeError"]
               ELSE [val |-> Elem(m.stack, Len(m.stack)),
                     vm |-> [m1 EXCEPT !.stack = SubSeq(@, 1, Len(@) - 1)], err |-> ""]
          [] header = Header.FETCH_DEPENDENCY ->
               [val |-> Elem(m.dependencies, ByteAt(m1, m1.programCounter)),
                vm |-> m2, err |-> ""]
          [] header = Header.FETCH_VARIABLE ->
               [val |-> IF ByteAt(m1, m1.programCounter) < 0 THEN Local(m, "undefined")
                        ELSE Local(m, NatStr(ByteAt(m1, m1.programCounter))),
                vm |-> m2, err |-> ""]
          [] OTHER -> [val |-> Undef, vm |-> m1, err |-> ""]

\* ------------------------------------------------------------------------
\* Virtual machine: opcode handlers.  A handler takes the VM as the fetch
\* loop hands it over (program counter already past the opcode byte) and
\* gives the VM it leaves, the error it throws ("" for none) and the host
\* call it makes, if any.
\* ------------------------------------------------------------------------

Ok(m) == [vm |-> m, err |-> "", call |-> <<>>]
Fail(m, e) == [vm |-> m, err |-> e, call |-> <<>>]

\* vm.stack[vm.stack.length] = v
Push(m, v) == [m EXCEPT !.stack = Append(@, v)]

opADD(m) == Ok(Push(m, JsAdd(Top(m, 2), Top(m, 1))))
opSUB(m) == Ok(Push(m, JsSub(Top(m, 2), Top(m, 1))))
opMUL(m) == Ok(Push(m, JsMul(Top(m, 2), Top(m, 1))))
opDIV(m) == Ok(Push(m, JsDiv(Top(m, 2), Top(m, 1))))
opMOD(m) == Ok(Push(m, JsMod(Top(m, 2), Top(m, 1))))
opNEG(m) == Ok(Push(m, Bool(~ToBoolean(Top(m, 1)))))
opEQUAL(m) == Ok(Push(m, Bool(LooseEquals(Top(m, 2), Top(m, 1)))))
opSTRICT_NOT_EQUAL(m) == Ok(Push(m, Bool(~StrictEquals(Top(m, 2), Top(m, 1)))))
opNOT(m) == Ok(Push(m, Bool(~ToBoolean(Top(m, 1)))))
opTYPEOF(m) == Ok(Push(m, Str(TypeOf(Top(m, 1)))))
opAND(m) == Ok(Push(m, IF ToBoolean(Top(m, 2)) THEN Top(m, 1) ELSE Top(m, 2)))

\* vm.localVariables[dst] = v
SetLocal(m, dst, v) == [m EXCEPT !.localVariables = (PropertyKey(dst) :> v) @@ @]

opSTORE(m) ==
    LET dst == getValue(m)
        v == getValue(dst.vm)
    IN  IF dst.err # "" THEN Fail(dst.vm, dst.err)
        ELSE IF v.err # "" THEN Fail(v.vm, v.err)
        ELSE Ok(SetLocal(v.vm, dst.val, v.val))

opGET_PROPERTY(m) ==
    LET r == GetProperty(Top(m, 2), Top(m, 1))
    IN  IF r.err # "" THEN Fail(m, r.err) ELSE Ok(Push(m, r.val))

\* The VM after a host call returned r: the result pushed, identities used up.
AfterCall(m, r, name, this, args) ==
    IF r.err # "" THEN Fail(m, r.err)
    ELSE [vm |-> Push([m EXCEPT !.nextId = IF r.val.t = "arr" THEN @ + 1 ELSE @], r.val),
          err |-> "",
          call |-> <<[fn |-> name, this |-> this, args |-> args]>>]

opCALL(m) ==
    LET fn == Top(m, 2)
        argArr == Spread(Top(m, 1))
    IN  IF ~argArr.ok \/ fn.t # "fn" THEN Fail(m, "TypeError")
        ELSE AfterCall(m, HostCall(fn.name, Undef, argArr.list, m.nextId),
                       fn.name, Undef, argArr.list)

\* The value is stored at the index the stack's length had before the operand was
\* read; a shorter stack is padded with holes, which read as undefined.
opPUSH(m) ==
    LET g == getValue(m)
        pad == [i \in 1..(Len(m.stack) - Len(g.vm.stack)) |-> Undef]
    IN  IF g.err # "" THEN Fail(g.vm, g.err)
        ELSE Ok([g.vm EXCEPT !.stack = @ \o pad \o <<g.val>>])

\* Mutant of opPOP: the top is read and left on the stack.
opPOPKeepsTop(m) ==
    LET dst == getValue(m)
    IN  IF dst.err # "" THEN Fail(dst.vm, dst.err)
        ELSE Ok(SetLocal(dst.vm, dst.val, Top(dst.vm, 1)))

opPOP(m) ==
    LET dst == getValue(m)
        m1 == dst.vm
    IN  IF dst.err # "" THEN Fail(m1, dst.err)
        ELSE Ok(SetLocal([m1 EXCEPT !.stack = SubSeq(@, 1, Len(@) - 1)],
                         dst.val, Top(m1, 1)))

opINIT_CONSTRUCTOR(m) ==
    LET r == Construct(Top(m, 2), Top(m, 1), m.nextId)
    IN  IF r.err # "" THEN Fail(m, r.err)
        ELSE Ok(Push([m EXCEPT !.nextId = @ + 1], r.val))

opINIT_ARRAY(m) == Ok(Push([m EXCEPT !.nextId = @ + 1], ArrV(m.nextId, <<Top(m, 1)>>)))

\* Mutant of opJMP_IF: the label is looked up before anything is pushed, and a
\* taken jump pushes no continuation.
opJMP_IFNoContinuation(m) ==
    LET key == PropertyKey(Top(m, 1))
    IN  IF ~ToBoolean(Top(m, 2)) THEN Ok(m)
        ELSE IF key \notin DOMAIN m.lookUpTable THEN Fail(m, "ILLEGAL JMP")
        ELSE Ok([m EXCEPT !.programCounter = m.lookUpTable[key]])

\* Mutant of opJMP_IF: a taken jump to an absent label falls through.
opJMP_IFSkipsAbsent(m) ==
    LET key == PropertyKey(Top(m, 1))
        m1 == [m EXCEPT !.exitToPreviousContext = <<Resume(m.programCounter)>> \o @]
    IN  IF ~ToBoolean(Top(m, 2)) THEN Ok(m)
        ELSE IF key \notin DOMAIN m.lookUpTable THEN Ok(m1)
        ELSE Ok([m1 EXCEPT !.programCounter = m.lookUpTable[key]])

opJMP_IF(m) ==
    LET expression == Top(m, 2)
        label == Top(m, 1)
        key == PropertyKey(label)
        m1 == [m EXCEPT !.exitToPreviousContext = <<Resume(m.programCounter)>> \o @]
    IN  IF ~ToBoolean(expression) THEN Ok(m)
        ELSE IF key \notin DOMAIN m.lookUpTable THEN Fail(m1, "ILLEGAL JMP")
        ELSE Ok([m1 EXCEPT !.programCounter = m.lookUpTable[key]])

\* Mutant of opEXIT: the continuation is invoked and stays on the stack.
opEXITNoShift(m) ==
    IF m.exitToPreviousContext = <<>> THEN Fail(m, "TypeError")
    ELSE LET k == Head(m.exitToPreviousContext)
         IN  Ok([m EXCEPT !.programCounter =
                              IF k.k = "base" THEN Len(m.bytecode) + 1 ELSE k.pc])

\* Mutant of opEXIT: the oldest continuation is taken, not the newest.
opEXITOldest(m) ==
    IF m.exitToPreviousContext = <<>> THEN Fail(m, "TypeError")
    ELSE LET k == m.exitToPreviousContext[Len(m.exitToPreviousContext)]
         IN  Ok([m EXCEPT !.programCounter =
                              IF k.k = "base" THEN Len(m.bytecode) + 1 ELSE k.pc,
                          !.exitToPreviousContext = SubSeq(@, 1, Len(@) - 1)])

opEXIT(m) ==
    IF m.exitToPreviousContext = <<>> THEN Fail(m, "TypeError")
    ELSE LET k == Head(m.exitToPreviousContext)
         IN  Ok([m EXCEPT !.programCounter =
                              IF k.k = "base" THEN Len(m.bytecode) + 1 ELSE k.pc,
                          !.exitToPreviousContext = Tail(@)])

opAPPLY(m) ==
    LET fn == Top(m, 3)
        obj == Top(m, 2)
        args == ArrayLike(Top(m, 1))
    IN  IF fn.t # "fn" \/ ~args.ok THEN Fail(m, "TypeError")
        ELSE AfterCall(m, HostCall(fn.name, obj, args.list, m.nextId),
                       fn.name, obj, args.list)

\* obj[property].call(this, ...args): `this` is the VM instance.
opCALL_MEMBER_EXPRESSION(m) ==
    LET obj == Top(m, 3)
        property == Top(m, 2)
        args == Spread(Top(m, 1))
        method == GetProperty(obj, property)
    IN  IF method.err # "" \/ method.val.t # "fn" \/ ~args.ok THEN Fail(m, "TypeError")
        ELSE AfterCall(m, HostCall(method.val.name, VMInstance, args.list, m.nextId),
                       method.val.name, VMInstance, args.list)

\* getInstructionHandler(opcode) !== undefined
HasHandler(opcode) == opcode \in Range(Opcode)

\* ------------------------------------------------------------------------
\* Programs.  Each is the tree handed to buildIL, with its source text.
\* ------------------------------------------------------------------------

ConsoleLog(args) == ExprStmt(Call(Member(Ident("console"), Ident("log")), args))
AssignStmt(name, e) == ExprStmt(Assign("=", Ident(name), e))

Fixed ==
    << \* 1: var x = 1 + 2; console.log(x);
       <<Var1("x", Bin("+", NumLit(1), NumLit(2))), ConsoleLog(<<Ident("x")>>)>>,
       \* 2: var i = 0; while (i < 3) { i = i + 1; }
       <<Var1("i", NumLit(0)),
         WhileStmt(Bin("<", Ident("i"), NumLit(3)),
                   BlockStmt(<<AssignStmt("i", Bin("+", Ident("i"), NumLit(1)))>>), 11, 39)>>,
       \* 3: var x = 0; if (false) { x = 1; } else { x = 2; }
       <<Var1("x", NumLit(0)),
         IfStmt([type |-> "BooleanLiteral", value |-> FALSE],
                BlockStmt(<<AssignStmt("x", NumLit(1))>>),
                BlockStmt(<<AssignStmt("x", NumLit(2))>>), 11, 48)>>,
       \* 4: var a = [1, 2, 3];
       <<Var1("a", ArrayExp(<<NumLit(1), NumLit(2), NumLit(3)>>))>>,
       \* 5: foo();
       <<ExprStmt(Call(Ident("foo"), <<>>))>>,
       \* 6: var x = 0; if (x == 0) { x = 1; } else { x = 2; } x = 3;
       <<Var1("x", NumLit(0)),
         IfStmt(Bin("==", Ident("x"), NumLit(0)),
                BlockStmt(<<AssignStmt("x", NumLit(1))>>),
                BlockStmt(<<AssignStmt("x", NumLit(2))>>), 11, 49),
         AssignStmt("x", NumLit(3))>>,
       \* 7: var x = 1; if (x == 0) { x = 5; } x = 3;
       <<Var1("x", NumLit(1)),
         IfStmt(Bin("==", Ident("x"), NumLit(0)),
                BlockStmt(<<AssignStmt("x", NumLit(5))>>), NullNode, 11, 32),
         AssignStmt("x", NumLit(3))>>,
       \* 8: for (var i = 0; i < 2; i++) { if (i == 1) { break; } continue; }
       <<ForStmt(Var1("i", NumLit(0)), Bin("<", Ident("i"), NumLit(2)),
                 Update("++", FALSE, Ident("i")),
                 BlockStmt(<<IfStmt(Bin("==", Ident("i"), NumLit(1)),
                                    BlockStmt(<<BreakStmt>>), NullNode, 31, 53),
                             ContinueStmt>>), 0, 65)>>,
       \* 9: var x = 0; x++; ++x; var y = x--;
       <<Var1("x", NumLit(0)), ExprStmt(Update("++", FALSE, Ident("x"))),
         ExprStmt(Update("++", TRUE, Ident("x"))),
         Var1("y", Update("--", FALSE, Ident("x")))>>,
       \* 10: var t = typeof 1; var n = !t;
       <<Var1("t", Unary("typeof", NumLit(1))), Var1("n", Unary("!", Ident("t")))>>,
       \* 11: var o = {a: 1, "b": 2};
       <<Var1("o", ObjectExp(<<ObjProp(Ident("a"), NumLit(1)),
                               ObjProp(StrLit("b"), NumLit(2))>>))>>,
       \* 12: var r = isNaN(); isNaN(1);
       <<Var1("r", Call(Ident("isNaN"), <<>>)), ExprStmt(Call(Ident("isNaN"), <<NumLit(1)>>))>>,
       \* 13: var x = 1; switch (x) {}
       <<Var1("x", NumLit(1)), SwitchStmt>>,
       \* 14: var x = 1; var y = (x = 5); x = y;
       <<Var1("x", NumLit(1)), Var1("y", Assign("=", Ident("x"), NumLit(5))),
         AssignStmt("x", Ident("y"))>>,
       \* 15: y = 1;
       <<AssignStmt("y", NumLit(1))>>,
       \* 16: var x = -1;
       <<Var1("x", Unary("-", NumLit(1)))>>,
       \* 17: var x = 1; var z = 1 in x;
       <<Var1("x", NumLit(1)), Var1("z", Bin("in", NumLit(1), Ident("x")))>>,
       \* 18: var a = [1]; a[0] = 2;
       <<Var1("a", ArrayExp(<<NumLit(1)>>)),
         ExprStmt(Assign("=", Member(Ident("a"), NumLit(0)), NumLit(2)))>>,
       \* 19: var a = [1]; a[0]++;
       <<Var1("a", ArrayExp(<<NumLit(1)>>)),
         ExprStmt(Update("++", FALSE, Member(Ident("a"), NumLit(0))))>>,
       \* 20: var o = {get a() { return 1; }};
       <<Var1("o", ObjectExp(<<ObjMethod(Ident("a"))>>))>>,
       \* 21: var x = 1; var x = 2; var u;
       <<Var1("x", NumLit(1)), Var1("x", NumLit(2)), Var1("u", NullNode)>>,
       \* 22: var s = "ab"; var l = s.length; var m = s["length"];
       <<Var1("s", StrLit("ab")), Var1("l", Member(Ident("s"), Ident("length"))),
         Var1("m", Member(Ident("s"), StrLit("length")))>>,
       \* 23: var x = 1; var y = 2 + x; 1 + 2;
       <<Var1("x", NumLit(1)), Var1("y", Bin("+", NumLit(2), Ident("x"))),
         ExprStmt(Bin("+", NumLit(1), NumLit(2)))>>,
       \* 24: var x = 1; var y = x + bar;
       <<Var1("x", NumLit(1)), Var1("y", Bin("+", Ident("x"), Ident("bar")))>>,
       \* 25: var x = 2; x = x * x; var f = function () {};
       <<Var1("x", NumLit(2)), AssignStmt("x", Bin("*", Ident("x"), Ident("x"))),
         Var1("f", FunctionExp)>>,
       \* 26: console.log(foo);
       <<ConsoleLog(<<Ident("foo")>>)>>,
       \* 27: var a = [1, foo];
       <<Var1("a", ArrayExp(<<NumLit(1), Ident("foo")>>))>>,
       \* 28: var l = foo.length;
       <<Var1("l", Member(Ident("foo"), Ident("length")))>>,
       \* 29: var x = 1; while (foo == x) { x = 2; }
       <<Var1("x", NumLit(1)),
         WhileStmt(Bin("==", Ident("foo"), Ident("x")),
                   BlockStmt(<<AssignStmt("x", NumLit(2))>>), 11, 39)>>,
       \* 30: var x = 1; x = bar;
       <<Var1("x", NumLit(1)), AssignStmt("x", Ident("bar"))>>,
       \* 31: foo++;
       <<ExprStmt(Update("++", FALSE, Ident("foo")))>>,
       \* 32: var x = x;
       <<Var1("x", Ident("x"))>>,
       \* 33: var a = [0, 0, ..., 0];   (as many elements as the number of EXIT)
       <<Var1("a", ArrayExp([i \in 1..Opcode.EXIT |-> NumLit(0)]))>>,
       \* 34: window.isNaN();
       <<ExprStmt(Call(Member(Ident("window"), Ident("isNaN")), <<>>))>>,
       \* 35: var isNaN = 1; var console = 2; var y = isNaN; var z = console;
       <<Var1("isNaN", NumLit(1)),
         Var1("console", NumLit(2)),
         Var1("y", Ident("isNaN")),
         Var1("z", Ident("console"))>>,
       \* 36: var i = 0; for (;;) { while (i < 1) { i = i + 1; } break; }
       <<Var1("i", NumLit(0)),
         ForStmt(NullNode, NullNode, NullNode,
                 BlockStmt(<<WhileStmt(Bin("<", Ident("i"), NumLit(1)),
                                       BlockStmt(<<AssignStmt("i", Bin("+", Ident("i"),
                                                                       NumLit(1)))>>),
                                       22, 50),
                             BreakStmt>>), 11, 59)>>,
       \* 37: var x = 1; var y = x + (x = 5);
       <<Var1("x", NumLit(1)),
         Var1("y", Bin("+", Ident("x"), Assign("=", Ident("x"), NumLit(5))))>>,
       \* 38: var n = 258; var s = "a"; var t = "b";
       <<Var1("n", NumLit(258)), Var1("s", StrLit("a")), Var1("t", StrLit("b"))>>,
       \* 39: var x = 0; if (x) { x = 1; } if (x) { x = 2; }
       \*     with both if statements synthesized (no start, no end)
       <<Var1("x", NumLit(0)),
         IfStmt(Ident("x"), BlockStmt(<<AssignStmt("x", NumLit(1))>>), NullNode, -1, -1),
         IfStmt(Ident("x"), BlockStmt(<<AssignStmt("x", NumLit(2))>>), NullNode, -1, -1)>>,
       \* 40: var x = 1; x += 2;
       <<Var1("x", NumLit(1)), ExprStmt(Assign("+=", Ident("x"), NumLit(2)))>>
    >>

BinaryOperators == <<"+", "-", "*", "/", "%", "==", "!==", "<">>

\* var x = a OP b;
BinaryProgram(o, a, b) == <<Var1("x", Bin(BinaryOperators[o], NumLit(a), NumLit(b)))>>

\* Byte streams written directly in the instruction set the VM implements.
IL2(main, label, block) ==
    [blocks |-> (MainLabel :> main) @@ (label :> block), keys |-> <<MainLabel, label>>]

PushNumber(n) == Instr("PUSH", <<createNumberArgument(n)>>)
PushString(str) == Instr("PUSH", <<createStringArgument(str)>>)
StoreNumber(dst, n) == Instr("STORE", <<createNumberArgument(dst), createNumberArgument(n)>>)

\* PUSH cond; PUSH label; JMP_IF; STORE 1 <- 9; EXIT  ||  blk: STORE 0 <- 7; EXIT
JumpProgram(cond, label) ==
    IL2(<<PushNumber(cond), PushString(label), Instr("JMP_IF", <<>>), StoreNumber(1, 9),
          Instr("EXIT", <<>>)>>,
        "blk",
        <<StoreNumber(0, 7), Instr("EXIT", <<>>)>>)

\* Two levels: main enters outer, outer enters inner when cond is truthy.
NestedProgram(cond) ==
    [blocks |-> (MainLabel :> <<PushNumber(1), PushString("outer"), Instr("JMP_IF", <<>>),
                                StoreNumber(2, 1), Instr("EXIT", <<>>)>>)
                @@ ("outer" :> <<PushNumber(cond), PushString("inner"), Instr("JMP_IF", <<>>),
                                 StoreNumber(1, 1), Instr("EXIT", <<>>)>>)
                @@ ("inner" :> <<StoreNumber(0, 1), Instr("EXIT", <<>>)>>),
     keys |-> <<MainLabel, "outer", "inner">>]

\* A block that enters itself for as long as it runs.
RecursiveProgram ==
    IL2(<<PushNumber(1), PushString("rec"), Instr("JMP_IF", <<>>), Instr("EXIT", <<>>)>>,
        "rec",
        <<PushNumber(1), PushString("rec"), Instr("JMP_IF", <<>>), Instr("EXIT", <<>>)>>)

\* The handlers no compiled program reaches, and the operand kinds the compiler
\* does not emit.
HandlersProgram ==
    [blocks |-> (MainLabel :>
        <<PushNumber(0), Instr("NOT", <<>>), PushNumber(2), Instr("AND", <<>>),
          Instr("PUSH", <<createDependencyArgument(0)>>), PushString("isNaN"),
          Instr("GET_PROPERTY", <<>>), Instr("POP", <<createNumberArgument(0)>>),
          Instr("PUSH", <<createVariableArgument(0)>>),
          Instr("PUSH", <<createUndefinedArgument>>),
          Instr("PUSH", <<createArrayArgument>>), Instr("APPLY", <<>>),
          Instr("PUSH", <<createDependencyArgument(0)>>), PushString("Array"),
          Instr("GET_PROPERTY", <<>>), PushNumber(2), Instr("INIT_CONSTRUCTOR", <<>>),
          Instr("STORE", <<createNumberArgument(1), [type |-> "POP_STACK"]>>),
          Instr("PUSH", <<[type |-> "POP_STACK"]>>),
          Instr("PUSH", <<[type |-> "LOAD_OBJECT"]>>),
          Instr("PUSH", <<createDependencyArgument(0)>>), PushString("isNaN"),
          Instr("PUSH", <<createArrayArgument>>), Instr("CALL_MEMBER_EXPRESSION", <<>>),
          Instr("EXIT", <<>>)>>),
     keys |-> <<MainLabel>>]

Raw ==
    <<RecursiveProgram, HandlersProgram>>

\* The programs of the model, by family.
ProgramIds ==
    {[fam |-> "fixed", n |-> i, a |-> 0, b |-> 0] : i \in DOMAIN Fixed}
    \cup {[fam |-> "binary", n |-> o, a |-> a, b |-> b] :
              o \in DOMAIN BinaryOperators, a \in 0..MaxLit, b \in 0..MaxLit}
    \cup {[fam |-> "jump", n |-> v, a |-> a, b |-> 0] : v \in 1..2, a \in 0..MaxLit}
    \cup {[fam |-> "nested", n |-> 1, a |-> a, b |-> 0] : a \in 0..MaxLit}
    \cup {[fam |-> "raw", n |-> i, a |-> 0, b |-> 0] : i \in DOMAIN Raw}

IsSource(p) == p.fam \in {"fixed", "binary"}

\* this.ast.program.body
Body(p) == IF p.fam = "fixed" THEN Fixed[p.n] ELSE BinaryProgram(p.n, p.a, p.b)

\* The IL of a program that is given as IL.
RawIL(p) ==
    CASE p.fam = "jump" -> JumpProgram(p.a, IF p.n = 1 THEN "blk" ELSE "nolabel")
      [] p.fam = "nested" -> NestedProgram(p.a)
      [] OTHER -> Raw[p.n]

\* ------------------------------------------------------------------------
\* State
\* ------------------------------------------------------------------------

VARIABLES
    prog,       \* the program of this behaviour
    phase,      \* "compile", "compile_error", "assemble", "construct", "run", "done", "fault"
    compiler,   \* the Compiler object
    pending,    \* compile(): what buildIL has still to do, the next item first
    returned,   \* the IL compile() returned (or the IL given directly)
    image,      \* the encoder's output
    vm,         \* the VM object
    run,        \* start(): instructions executed so far, and the fault thrown
    hist        \* history: what the run did, kept for the properties below

vars == <<prog, phase, compiler, pending, returned, image, vm, run, hist>>

NoIL == [blocks |-> [l \in {} |-> <<>>], keys |-> <<>>]
NoImage == [bytecode |-> <<>>, strings |-> <<>>, lookUpTable |-> [l \in {} |-> 0]]

\* hist.marks: length of main after each compiled top-level statement;
\* entered: jumps taken (JMP_IF with a truthy condition and a known label);
\* exits: EXITs executed;
\* visits: program-counter values at which an instruction was fetched;
\* calls: host calls made.
NoHist == [marks |-> <<>>, entered |-> 0, exits |-> 0, visits |-> <<>>, calls |-> <<>>]

Init ==
    /\ prog \in ProgramIds
    /\ phase = IF IsSource(prog) THEN "compile" ELSE "assemble"
    /\ compiler = NewCompiler
    /\ pending = IF IsSource(prog) THEN Statements(Body(prog), TRUE) ELSE <<>>
    /\ returned = IF IsSource(prog) THEN NoIL ELSE RawIL(prog)
    /\ image = NoImage
    /\ vm = NoVM
    /\ run = [steps |-> 0, fault |-> ""]
    /\ hist = NoHist

\* ------------------------------------------------------------------------
\* compile()
\* ------------------------------------------------------------------------

\* Mutant of CompileStatement: a throw hands out the IL built so far.
CompileStatementReturnsPartial ==
    /\ phase = "compile"
    /\ pending # <<>>
    /\ compiler' = Work(compiler, Head(pending))
    /\ phase' = IF compiler'.err # "" THEN "compile_error" ELSE "compile"
    /\ pending' = IF compiler'.err # "" THEN <<>> ELSE Then(Head(pending)) \o Tail(pending)
    /\ hist' = [hist EXCEPT !.marks = IF compiler'.err = "" /\ EndsTop(Head(pending))
                                      THEN Append(@, Len(compiler'.heap[1])) ELSE @]
    /\ returned' = IF compiler'.err # ""
                   THEN [blocks |-> ILOf(compiler'), keys |-> compiler'.ilKeys]
                   ELSE returned
    /\ UNCHANGED <<prog, image, vm, run>>

\* One iteration of the forEach of buildIL(this.ast.program.body); a throw
\* leaves compile() with the compiler as it is.
CompileStatement ==
    /\ phase = "compile"
    /\ pending # <<>>
    /\ compiler' = Work(compiler, Head(pending))
    /\ phase' = IF compiler'.err # "" THEN "compile_error" ELSE "compile"
    /\ pending' = IF compiler'.err # "" THEN <<>> ELSE Then(Head(pending)) \o Tail(pending)
    /\ hist' = [hist EXCEPT !.marks = IF compiler'.err = "" /\ EndsTop(Head(pending))
                                      THEN Append(@, Len(compiler'.heap[1])) ELSE @]
    /\ UNCHANGED <<prog, returned, image, vm, run>>

\* this.appendExitInstruction(); return this.il
CompileReturn ==
    /\ phase = "compile"
    /\ pending = <<>>
    /\ compiler' = appendExitInstruction(compiler)
    /\ returned' = [blocks |-> ILOf(compiler'), keys |-> compiler'.ilKeys]
    /\ phase' = "assemble"
    /\ UNCHANGED <<prog, pending, image, vm, run, hist>>

\* The encoder/packager.
Assemble ==
    /\ phase = "assemble"
    /\ image' = Encode(returned)
    /\ phase' = "construct"
    /\ UNCHANGED <<prog, compiler, pending, returned, vm, run, hist>>

\* new VM(bytecode, strings, lookUpTable)
Construct_VM ==
    /\ phase = "construct"
    /\ vm' = NewVM(image)
    /\ phase' = "run"
    /\ UNCHANGED <<prog, compiler, pending, returned, image, run, hist>>

\* ------------------------------------------------------------------------
\* start(): the fetch loop, one action per handler
\* ------------------------------------------------------------------------

\* while (this.programCounter < this.bytecode.length)
InLoop == phase = "run" /\ vm.programCounter < Len(vm.bytecode) /\ run.steps < MaxSteps

\* const opcode = this.bytecode[this.programCounter++]
Fetched == [vm EXCEPT !.programCounter = @ + 1]

Fetches(name) == InLoop /\ ByteAt(vm, vm.programCounter) = Opcode[name]

\* handler(this): r is what the handler gave for the fetched VM.
Commit(r) ==
    /\ vm' = r.vm
    /\ phase' = IF r.err # "" THEN "fault" ELSE "run"
    /\ run' = [steps |-> run.steps + 1, fault |-> r.err]
    /\ hist' = [hist EXCEPT
                  !.visits = Append(@, vm.programCounter),
                  !.calls = @ \o r.call,
                  !.entered = IF r.err = "" /\ ByteAt(vm, vm.programCounter) = Opcode.JMP_IF
                                 /\ ToBoolean(Top(vm, 2))
                              THEN @ + 1 ELSE @,
                  !.exits = IF r.err = "" /\ ByteAt(vm, vm.programCounter) = Opcode.EXIT
                            THEN @ + 1 ELSE @]
    /\ UNCHANGED <<prog, compiler, pending, returned, image>>

ADD == Fetches("ADD") /\ Commit(opADD(Fetched))
SUB == Fetches("SUB") /\ Commit(opSUB(Fetched))
MUL == Fetches("MUL") /\ Commit(opMUL(Fetched))
DIV == Fetches("DIV") /\ Commit(opDIV(Fetched))
MOD == Fetches("MOD") /\ Commit(opMOD(Fetched))
NEG == Fetches("NEG") /\ Commit(opNEG(Fetched))
EQUAL == Fetches("EQUAL") /\ Commit(opEQUAL(Fetched))
STORE == Fetches("STORE") /\ Commit(opSTORE(Fetched))
GET_PROPERTY == Fetches("GET_PROPERTY") /\ Commit(opGET_PROPERTY(Fetched))
CALL == Fetches("CALL") /\ Commit(opCALL(Fetched))
PUSH == Fetches("PUSH") /\ Commit(opPUSH(Fetched))
POP == Fetches("POP") /\ Commit(opPOP(Fetched))
INIT_CONSTRUCTOR == Fetches("INIT_CONSTRUCTOR") /\ Commit(opINIT_CONSTRUCTOR(Fetched))
STRICT_NOT_EQUAL == Fetches("STRICT_NOT_EQUAL") /\ Commit(opSTRICT_NOT_EQUAL(Fetched))
INIT_ARRAY == Fetches("INIT_ARRAY") /\ Commit(opINIT_ARRAY(Fetched))
NOT == Fetches("NOT") /\ Commit(opNOT(Fetched))
TYPEOF == Fetches("TYPEOF") /\ Commit(opTYPEOF(Fetched))
JMP_IF == Fetches("JMP_IF") /\ Commit(opJMP_IF(Fetched))
EXIT == Fetches("EXIT") /\ Commit(opEXIT(Fetched))
AND == Fetches("AND") /\ Commit(opAND(Fetched))
APPLY == Fetches("APPLY") /\ Commit(opAPPLY(Fetched))
CALL_MEMBER_EXPRESSION ==
    Fetches("CALL_MEMBER_EXPRESSION") /\ Commit(opCALL_MEMBER_EXPRESSION(Fetched))

\* Mutant of UnknownOpcode: the fault is thrown after the operand stack is reset.
UnknownOpcodeClears ==
    /\ InLoop
    /\ ~HasHandler(ByteAt(vm, vm.programCounter))
    /\ vm' = [Fetched EXCEPT !.stack = <<>>]
    /\ phase' = "fault"
    /\ run' = [steps |-> run.steps + 1, fault |-> "UNKNOWN_OPCODE"]
    /\ hist' = [hist EXCEPT !.visits = Append(@, vm.programCounter)]
    /\ UNCHANGED <<prog, compiler, pending, returned, image>>

\* if (handler === undefined) throw 'UNKNOWN_OPCODE'
UnknownOpcode ==
    /\ InLoop
    /\ ~HasHandler(ByteAt(vm, vm.programCounter))
    /\ vm' = Fetched
    /\ phase' = "fault"
    /\ run' = [steps |-> run.steps + 1, fault |-> "UNKNOWN_OPCODE"]
    /\ hist' = [hist EXCEPT !.visits = Append(@, vm.programCounter)]
    /\ UNCHANGED <<prog, compiler, pending, returned, image>>

\* The loop condition fails: start() returns.
Halt ==
    /\ phase = "run"
    /\ vm.programCounter >= Len(vm.bytecode)
    /\ phase' = "done"
    /\ UNCHANGED <<prog, compiler, pending, returned, image, vm, run, hist>>

Next ==
    \/ CompileStatement \/ CompileReturn \/ Assemble \/ Construct_VM
    \/ ADD \/ SUB \/ MUL \/ DIV \/ MOD \/ NEG \/ EQUAL \/ STORE \/ GET_PROPERTY \/ CALL
    \/ PUSH \/ POP \/ INIT_CONSTRUCTOR \/ STRICT_NOT_EQUAL \/ INIT_ARRAY \/ NOT \/ TYPEOF
    \/ JMP_IF \/ EXIT \/ AND \/ APPLY \/ CALL_MEMBER_EXPRESSION
    \/ UnknownOpcode \/ Halt

Spec == Init /\ [][Next]_vars

\* ------------------------------------------------------------------------
\* Properties
\* ------------------------------------------------------------------------

\* Every instruction the compiler holds, block after block.
Emitted == Flatten(compiler.heap)

IsPopIntoSlot(instruction) ==
    /\ instruction.opcode = "POP"
    /\ instruction.args[1].type = "LOAD_NUMBER"

\* The slots the emitted POP instructions name, in emission order per block.
PopSlots ==
    LET pops == SelectSeq(Emitted, IsPopIntoSlot)
    IN  [i \in DOMAIN pops |-> pops[i].args[1].value]

IsIntermediate(a) == a.what.kind = "intermediate"

\* The slots allocated for intermediates and literals.
IntermediateSlots == {a.slot : a \in {b \in Range(compiler.allocs) : IsIntermediate(b)}}

SlotsInjective ==
    /\ compiler.counter = Len(compiler.allocs)
    /\ \A i \in DOMAIN compiler.allocs : compiler.allocs[i].slot = i - 1
    /\ \A n1, n2 \in DOMAIN compiler.variables :
           compiler.variables[n1] = compiler.variables[n2] => n1 = n2
    /\ \A n \in DOMAIN compiler.variables :
           [slot |-> compiler.variables[n], what |-> ForVariable(n)]
               \in Range(compiler.allocs)
    /\ \A i, j \in DOMAIN PopSlots : PopSlots[i] = PopSlots[j] => i = j
    /\ \A i \in DOMAIN PopSlots :
           /\ PopSlots[i] \in IntermediateSlots
           /\ PopSlots[i] \notin Range(compiler.variables)

\* C1: every allocation takes the current counter value and advances the
\* counter by one, so distinct variable names have distinct slots, the slot of
\* an intermediate (the destination of an emitted POP) is the slot of no
\* variable and of no other intermediate, and the counter never decreases.
C1_SlotAllocation ==
    /\ []SlotsInjective
    /\ [][compiler'.counter >= compiler.counter]_vars

\* C1 witness: a compilation that allocated two variables and three intermediates.
C1_Witness ==
    /\ phase = "assemble"
    /\ Cardinality(DOMAIN compiler.variables) >= 2
    /\ Cardinality(IntermediateSlots) >= 3
    /\ Len(PopSlots) >= 3

\* The byte offsets of main at which the code of a statement of the program
\* body ends.
StatementEnds ==
    {Len(EncodeBlock(SubSeq(returned.blocks[MainLabel], 1, hist.marks[i]), image.strings)) :
         i \in DOMAIN hist.marks}

\* C2: when the VM has executed the instructions compiled for a complete
\* statement of the program body, its operand stack is empty.
C2_StackEmptyAfterStatement ==
    (phase = "run" /\ IsSource(prog) /\ vm.programCounter \in StatementEnds)
        => vm.stack = <<>>

\* An EXIT that ran pops exactly one continuation and a jump taken pushes
\* exactly one.
OnePushOnePop ==
    /\ (hist'.exits = hist.exits + 1) =>
           (Len(vm'.exitToPreviousContext) = Len(vm.exitToPreviousContext) - 1)
    /\ (hist'.entered = hist.entered + 1) =>
           (Len(vm'.exitToPreviousContext) = Len(vm.exitToPreviousContext) + 1)

NestingDepth ==
    IF hist.exits > hist.entered THEN 0 ELSE hist.entered - hist.exits

\* C4 as stated: from construction until the run ends the continuation-stack
\* depth equals the number of blocks entered via a jump and not yet exited,
\* so it is zero while main-level code runs.
C4_DepthIsNesting ==
    phase = "run" => Len(vm.exitToPreviousContext) = NestingDepth

\* C4 amended: the constructor installs the continuation that ends the run,
\* so from construction until main's EXIT the depth is the nesting depth plus
\* one; it is zero once main's EXIT has run.  A jump that faults on an absent
\* label has already pushed its continuation.
C4_DepthIsNestingPlusBase ==
    phase \in {"run", "done", "fault"} =>
        Len(vm.exitToPreviousContext) =
            hist.entered - hist.exits + 1 + (IF run.fault = "ILLEGAL JMP" THEN 1 ELSE 0)

\* C4 witness: the VM is running inside a block entered from a block.
C4_Witness ==
    /\ phase = "run"
    /\ NestingDepth = 2
    /\ Len(vm.exitToPreviousContext) = 3

\* The instruction fetched next is a JMP_IF whose label is not in the lookup
\* table.
JumpToAbsentLabel ==
    /\ Fetches("JMP_IF")
    /\ PropertyKey(Top(vm, 1)) \notin DOMAIN vm.lookUpTable

IllegalJumpFault ==
    /\ phase' = "fault"
    /\ run'.fault = "ILLEGAL JMP"
    /\ vm'.programCounter = vm.programCounter + 1

\* C5 as stated: a jump whose label is absent from the lookup table raises
\* ILLEGAL JMP at that jump whatever the value of its condition.
C5_AbsentLabelAlwaysFaults ==
    [][JumpToAbsentLabel => IllegalJumpFault]_vars

\* C5 amended: a jump whose label is absent raises ILLEGAL JMP exactly when
\* its condition is truthy; the program counter is then not redirected and
\* nothing executes after the fault.  With a falsy condition the label is not
\* looked up and the run goes on with the instruction after the jump.
C5_TakenAbsentLabelFaults ==
    /\ [][JumpToAbsentLabel =>
             IF ToBoolean(Top(vm, 2)) THEN IllegalJumpFault
             ELSE /\ phase' = "run"
                  /\ vm' = Fetched]_vars
    /\ [][phase # "fault"]_vars

\* C5 witness: a run stopped by ILLEGAL JMP just after the jump's opcode.
C5_Witness ==
    /\ phase = "fault"
    /\ run.fault = "ILLEGAL JMP"
    /\ ByteAt(vm, vm.programCounter - 1) = Opcode.JMP_IF

\* The byte fetched next has no registered handler.
FetchesUnregistered ==
    /\ InLoop
    /\ ~HasHandler(ByteAt(vm, vm.programCounter))

\* C6: when the byte fetched has no registered handler the run stops at once
\* with UNKNOWN_OPCODE: the operand stack, the slots and the continuation
\* stack are as before the fetch, no host call is made, and no instruction
\* is executed afterwards.
C6_UnknownOpcodeHalts ==
    /\ [][FetchesUnregistered =>
             /\ phase' = "fault"
             /\ run'.fault = "UNKNOWN_OPCODE"
             /\ vm'.stack = vm.stack
             /\ vm'.localVariables = vm.localVariables
             /\ vm'.exitToPreviousContext = vm.exitToPreviousContext
             /\ hist'.calls = hist.calls]_vars
    /\ [][run.fault # "UNKNOWN_OPCODE"]_vars

\* C6 witness: a run stopped by UNKNOWN_OPCODE with operands on the stack and
\* a slot written.
C6_Witness ==
    /\ phase = "fault"
    /\ run.fault = "UNKNOWN_OPCODE"
    /\ vm.stack # <<>>
    /\ DOMAIN vm.localVariables # {}

\* The errors raised for an identifier or assignment target that resolves to
\* nothing; every other compile error reports an unsupported construct.
ReferenceErrors == {"UNKNOWN_SOURCE_VARIABLE", "VARIABLE_NOT_DEFINED"}

FailedOnUnsupportedConstruct ==
    /\ phase = "compile_error"
    /\ compiler.err \notin ReferenceErrors

\* C7 as stated: when compile fails on an unsupported construct no IL is
\* returned and no block of the compiler's IL holds an instruction.
C7_NoPartialOutput ==
    FailedOnUnsupportedConstruct =>
        /\ returned = NoIL
        /\ \A l \in DOMAIN compiler.il : compiler.heap[compiler.il[l]] = <<>>

\* compile() has thrown: nothing was returned, encoded or run, and the
\* statements after the failing one were not compiled.
NothingReturned ==
    phase = "compile_error" =>
        /\ compiler.err # ""
        /\ returned = NoIL
        /\ image = NoImage
        /\ vm = NoVM
        /\ Len(hist.marks) < Len(Body(prog))

\* compile() has returned: the IL is the compiler's, every statement of the
\* body was compiled and main ends with EXIT.
CompleteReturned ==
    (IsSource(prog) /\ phase \notin {"compile", "compile_error"}) =>
        /\ compiler.err = ""
        /\ returned.blocks = ILOf(compiler)
        /\ Len(hist.marks) = Len(Body(prog))
        /\ returned.blocks[MainLabel][Len(returned.blocks[MainLabel])].opcode = "EXIT"

\* C7 amended: compile either returns the complete IL or throws at the first
\* construct it does not support; when it throws it returns no IL and
\* nothing is encoded or run, while the compiler's own blocks keep the
\* instructions emitted before the throw.
C7_AllOrNothingReturn ==
    /\ [](NothingReturned /\ CompleteReturned)
    /\ [][(compiler'.err # "") => (phase' = "compile_error")]_vars
    /\ [][phase # "compile_error"]_vars

\* C7 witness: compile has thrown on an unsupported construct after emitting
\* instructions into main.
C7_Witness ==
    /\ FailedOnUnsupportedConstruct
    /\ returned = NoIL
    /\ compiler.heap[compiler.il[MainLabel]] # <<>>

RECURSIVE Reads(_)
\* The identifiers an expression reads or calls.  The property of a member
\* expression written as a name is a key, not a read.
Reads(node) ==
    CASE node.type = "Identifier" -> {node.name}
      [] node.type \in {"BinaryExpression", "AssignmentExpression"} ->
           (IF node.left.type = "Identifier" /\ node.type = "AssignmentExpression"
            THEN {} ELSE Reads(node.left)) \cup Reads(node.right)
      [] node.type \in {"UnaryExpression", "UpdateExpression"} -> Reads(node.argument)
      [] node.type = "CallExpression" ->
           Reads(node.callee) \cup UNION {Reads(node.arguments[i]) : i \in DOMAIN node.arguments}
      [] node.type = "MemberExpression" ->
           Reads(node.object) \cup
           (IF node.property.type = "Identifier" THEN {} ELSE Reads(node.property))
      [] node.type = "ArrayExpression" ->
           UNION {Reads(node.elements[i]) : i \in DOMAIN node.elements}
      [] node.type = "ObjectExpression" ->
           UNION {IF node.properties[i].type = "ObjectProperty"
                  THEN Reads(node.properties[i].value) ELSE {} : i \in DOMAIN node.properties}
      [] OTHER -> {}

\* The identifiers read by the declarations; a declared name is known from
\* its own initialiser on.
DeclarationReads(declarations) ==
    UNION {Reads(declarations[i].init)
               \ {declarations[j].id.name : j \in 1..i} : i \in DOMAIN declarations}

\* The identifiers read by what one step of buildIL translates of a statement:
\* the whole of a simple statement, the test of an if or a loop.
StatementReads(statement) ==
    CASE statement.type = "VariableDeclaration" -> DeclarationReads(statement.declarations)
      [] statement.type = "ExpressionStatement" -> Reads(statement.expression)
      [] statement.type \in {"IfStatement", "WhileStatement"} -> Reads(statement.test)
      [] statement.type = "ForStatement" ->
           IF statement.init.type = "VariableDeclaration"
           THEN DeclarationReads(statement.init.declarations) \cup
                (Reads(statement.test) \ {statement.init.declarations[j].id.name :
                                              j \in DOMAIN statement.init.declarations})
           ELSE Reads(statement.init) \cup Reads(statement.test)
      [] OTHER -> {}

IsResolved(name) ==
    \/ isADependency(name)
    \/ isADependencyUnderWindow(name)
    \/ name \in DOMAIN compiler.variables

\* The statement compiled next reads an identifier that resolves to nothing.
ReadsUnresolved ==
    /\ phase = "compile"
    /\ pending # <<>>
    /\ Head(pending).k = "statement"
    /\ \E name \in StatementReads(Head(pending).node) : ~IsResolved(name)

\* C8 as stated: compiling a statement that reads or calls an unresolved
\* identifier fails with an unresolved-reference error before any instruction
\* has been emitted for that statement.
C8_FailsBeforeAnyEmission ==
    [][ReadsUnresolved =>
          /\ compiler'.err \in ReferenceErrors
          /\ compiler'.heap = compiler.heap]_vars

\* C8 amended: compiling a statement that reads or calls an unresolved
\* identifier fails with an unresolved-reference error; no IL is returned and
\* no bytecode is produced, but the instructions emitted before the identifier
\* was translated stay in the compiler's blocks.
C8_FailsBeforeAnyBytecode ==
    /\ [][ReadsUnresolved =>
             /\ phase' = "compile_error"
             /\ compiler'.err \in ReferenceErrors
             /\ returned' = NoIL]_vars
    /\ []((phase = "compile_error" /\ compiler.err \in ReferenceErrors) =>
             (image = NoImage /\ vm = NoVM))

\* C8 witness: `foo();` has failed with UNKNOWN_SOURCE_VARIABLE after the
\* instructions of its argument list were emitted.
C8_Witness ==
    /\ phase = "compile_error"
    /\ compiler.err = "UNKNOWN_SOURCE_VARIABLE"
    /\ hist.marks = <<>>
    /\ Len(compiler.heap[compiler.il[MainLabel]]) = 2
    /\ returned = NoIL

\* The run has executed the first instruction of the block the label names.
BlockRan(label) ==
    /\ label \in DOMAIN image.lookUpTable
    /\ image.lookUpTable[label] \in Range(hist.visits)

\* The if statements of the program body.
TopLevelIfs ==
    IF IsSource(prog)
    THEN {Body(prog)[i] : i \in {j \in DOMAIN Body(prog) : Body(prog)[j].type = "IfStatement"}}
    ELSE {}

\* C9: when the run of a compiled program with an if statement has ended, it
\* ended without a fault, and of the if-block and the else-block exactly one
\* has run; without an else at most the if-block has run.
C9_IfRunsOneBranch ==
    phase \in {"done", "fault"} =>
        \A node \in TopLevelIfs :
            /\ run.fault = ""
            /\ IF node.alternate.type = "null" THEN TRUE
               ELSE BlockRan(SpanLabel("if", node)) # BlockRan(SpanLabel("else", node))

\* The while statements of the program body.
TopLevelWhiles ==
    IF IsSource(prog)
    THEN {Body(prog)[i] : i \in {j \in DOMAIN Body(prog) : Body(prog)[j].type = "WhileStatement"}}
    ELSE {}

\* var i = 0; while (i < 3) { i = i + 1; }
CountingLoop == Fixed[2]

\* C10: when the run of a compiled program with a while loop has ended, it
\* ended without a fault, the loop block has run, its continuation has been
\* popped again, and for `var i = 0; while (i < 3) { i = i + 1; }` the slot
\* bound to i holds 3.
C10_WhileRunsToExit ==
    phase \in {"done", "fault"} =>
        \A node \in TopLevelWhiles :
            /\ run.fault = ""
            /\ BlockRan(SpanLabel("while", node))
            /\ vm.exitToPreviousContext = <<>>
            /\ Body(prog) = CountingLoop =>
                   Local(vm, NatStr(compiler.variables["i"])) = Num(3)

\* INIT_ARRAY as the compiler expects it: the count operand is consumed, the
\* count values on top of the stack are replaced by one array, and element k
\* of the array is the value pushed k-th from the last (the k-th source
\* element, the elements having been pushed last first).
InitArrayBuildsArray ==
    /\ vm'.programCounter = getValue(Fetched).vm.programCounter
    /\ Len(vm'.stack) = Len(vm.stack) - getValue(Fetched).val.n + 1
    /\ Top(vm', 1).t = "arr"
    /\ Top(vm', 1).a = [k \in 1..getValue(Fetched).val.n |-> Top(vm, k)]

\* C11: executing the INIT_ARRAY of a compiled array literal or argument list
\* consumes its count operand, removes that many values from the operand
\* stack and leaves the array of those values in source order.
C11_InitArrayInSourceOrder ==
    [][(IsSource(prog) /\ Fetches("INIT_ARRAY")) => InitArrayBuildsArray]_vars

\* for (var i = 0; i < 2; i++) { if (i == 1) { break; } continue; }
BreakInsideIf == Fixed[8]

\* C12: the compiled break and continue behave as in direct evaluation: the
\* run of `for (var i = 0; i < 2; i++) { if (i == 1) { break; } continue; }`
\* ends without a fault, the continue of the first iteration having run the
\* update and the break of the second having left the loop with i = 1.
C12_BreakContinueAsEvaluated ==
    (IsSource(prog) /\ phase \in {"done", "fault"} /\ Body(prog) = BreakInsideIf) =>
        /\ phase = "done"
        /\ run.fault = ""
        /\ Local(vm, NatStr(compiler.variables["i"])) = Num(1)

RECURSIVE ContainsLoop(_)
\* The statement is a loop or holds one in a branch.
ContainsLoop(statement) ==
    CASE statement.type \in {"WhileStatement", "ForStatement"} -> TRUE
      [] statement.type = "BlockStatement" ->
           \E i \in DOMAIN statement.body : ContainsLoop(statement.body[i])
      [] statement.type = "IfStatement" ->
           \/ ContainsLoop(statement.consequent)
           \/ ContainsLoop(statement.alternate)
      [] OTHER -> FALSE

LoopFree(p) ==
    /\ IsSource(p)
    /\ \A i \in DOMAIN Body(p) : ~ContainsLoop(Body(p)[i])

\* The byte offset of the EXIT that compile() appends to main.
MainExitOffset == Len(EncodeBlock(returned.blocks[MainLabel], image.strings)) - 1

\* C13: the run of a compiled loop-free program does not go on without end,
\* and when it completes the EXIT appended to main was the last instruction
\* executed, the program counter is past the end of the bytecode and no byte
\* of another block was executed.
C13_EndsAtMainExit ==
    LoopFree(prog) =>
        /\ phase = "run" => run.steps < MaxSteps
        /\ phase = "done" =>
              /\ hist.visits[Len(hist.visits)] = MainExitOffset
              /\ vm.programCounter = Len(vm.bytecode) + 1
              /\ \A i \in DOMAIN hist.visits : hist.visits[i] <= MainExitOffset

BinaryHandlers == {"ADD", "SUB", "MUL", "DIV", "MOD", "EQUAL", "STRICT_NOT_EQUAL", "AND"}
UnaryHandlers == {"NEG", "NOT", "TYPEOF"}

\* C14: a binary operator handler leaves the operand stack one shorter (two
\* operands removed, one result pushed) and a unary handler leaves its depth
\* unchanged (one operand removed, one result pushed).
C14_OperatorsConsumeOperands ==
    [][/\ (\E name \in BinaryHandlers : Fetches(name)) =>
              (Len(vm'.stack) = Len(vm.stack) - 1)
       /\ (\E name \in UnaryHandlers : Fetches(name)) =>
              (Len(vm'.stack) = Len(vm.stack))]_vars

\* The host call the step made, when it made one.
CallMade == hist'.calls[Len(hist'.calls)]

\* C15: a CALL_MEMBER_EXPRESSION that calls the method calls it with the
\* object (third from the top of the stack) as its receiver and the elements
\* of the argument array as its arguments.
C15_ReceiverIsObject ==
    [][(Fetches("CALL_MEMBER_EXPRESSION") /\ Len(hist'.calls) > Len(hist.calls)) =>
          /\ CallMade.this = Top(vm, 3)
          /\ CallMade.args = Spread(Top(vm, 1)).list]_vars

\* The identifiers resolved in every reachable compiler state.
IdentifierNames == {"window", "console", "isNaN", "undefined", "x", "y", "i", "foo"}

\* What the Identifier case of translateExpression returns for a name.
Resolve(name) == translateExpression(compiler, Ident(name))

ResolvesToDependency(name) ==
    /\ Resolve(name).c = compiler
    /\ \E i \in DOMAIN dependencies :
          /\ dependencies[i] = name
          /\ Resolve(name).arg = [type |-> "FETCH_DEPENDENCY", value |-> i - 1]

\* PUSH window; PUSH name; GET_PROPERTY; POP into a fresh slot.
WindowAccess(name, slot) ==
    << Instr("PUSH", <<[type |-> "FETCH_DEPENDENCY", value |-> 0]>>),
       Instr("PUSH", <<[type |-> "LOAD_STRING", str |-> name]>>),
       Instr("GET_PROPERTY", <<>>),
       Instr("POP", <<[type |-> "LOAD_NUMBER", value |-> slot]>>) >>

ResolvesUnderWindow(name) ==
    /\ Resolve(name).c.err = ""
    /\ Resolve(name).c.heap =
          [compiler.heap EXCEPT ![Head(compiler.blocks)] =
              @ \o WindowAccess(name, compiler.counter)]
    /\ Resolve(name).c.counter = compiler.counter + 1
    /\ Resolve(name).c.variables = compiler.variables
    /\ Resolve(name).arg = [type |-> "FETCH_VARIABLE", value |-> compiler.counter]

ResolvesToSlot(name) ==
    IF name \in DOMAIN compiler.variables
    THEN /\ Resolve(name).c = compiler
         /\ Resolve(name).arg = [type |-> "FETCH_VARIABLE", value |-> compiler.variables[name]]
    ELSE /\ Resolve(name).c.err = "UNKNOWN_SOURCE_VARIABLE"
         /\ Resolve(name).c.heap = compiler.heap

\* C16: an identifier resolves to its dependency index when it is in the
\* dependency list, else to a member access on window when it is on the
\* window allowlist, else to its variable slot (failing when it has none),
\* whether or not a variable of that name is declared.
C16_ResolutionPrecedence ==
    (IsSource(prog) /\ compiler.err = "") =>
        \A name \in IdentifierNames :
            IF \E i \in DOMAIN dependencies : dependencies[i] = name
            THEN ResolvesToDependency(name)
            ELSE IF name \in dependenciesUnderWindow
            THEN ResolvesUnderWindow(name)
            ELSE ResolvesToSlot(name)

\* Variables named like a dependency and like an allowlisted name are
\* declared, and both names have been read after their declaration.
C16_Witness ==
    /\ IsSource(prog)
    /\ phase = "done" \/ phase = "fault"
    /\ {"isNaN", "console", "y", "z"} \subseteq DOMAIN compiler.variables
    /\ \E k \in DOMAIN returned.blocks[MainLabel] :
          /\ k + 4 <= Len(returned.blocks[MainLabel])
          /\ SubSeq(returned.blocks[MainLabel], k, k + 3) \in
                {WindowAccess("isNaN", slot) : slot \in 0..compiler.counter}
          /\ returned.blocks[MainLabel][k + 4] =
                Instr("STORE", <<[type |-> "LOAD_NUMBER", value |-> compiler.variables["y"]],
                                 [type |-> "FETCH_VARIABLE",
                                  value |-> returned.blocks[MainLabel][k + 3].args[1].value]>>)
    /\ \E k \in DOMAIN returned.blocks[MainLabel] :
          returned.blocks[MainLabel][k] =
              Instr("STORE", <<[type |-> "LOAD_NUMBER", value |-> compiler.variables["z"]],
                               [type |-> "FETCH_DEPENDENCY", value |-> 1]>>)

\* The compiler after `var name = 1;` and after `name = 1;`.
AfterDeclaring(name) == buildStatement(compiler, Var1(name, NumLit(1)))
AfterAssigning(name) == buildStatement(compiler, ExprStmt(Assign("=", Ident(name), NumLit(1))))

\* c is the compiler with one more instruction, STORE of 1 to the slot.
StoreAppended(c, slot) ==
    /\ c.err = ""
    /\ c.heap = [compiler.heap EXCEPT ![Head(compiler.blocks)] =
                    Append(@, Instr("STORE", <<[type |-> "LOAD_NUMBER", value |-> slot],
                                               [type |-> "LOAD_NUMBER", value |-> 1]>>))]

DeclaresAndAssigns(name) ==
    IF name \in DOMAIN compiler.variables
    THEN /\ StoreAppended(AfterDeclaring(name), compiler.variables[name])
         /\ StoreAppended(AfterAssigning(name), compiler.variables[name])
         /\ AfterDeclaring(name).variables = compiler.variables
         /\ AfterAssigning(name).variables = compiler.variables
         /\ AfterDeclaring(name).counter = compiler.counter
         /\ AfterAssigning(name).counter = compiler.counter
    ELSE /\ StoreAppended(AfterDeclaring(name), compiler.counter)
         /\ AfterDeclaring(name).counter = compiler.counter + 1
         /\ AfterDeclaring(name).variables = (name :> compiler.counter) @@ compiler.variables
         /\ AfterAssigning(name).err = "VARIABLE_NOT_DEFINED"
         /\ AfterAssigning(name).heap = compiler.heap
         /\ AfterAssigning(name).variables = compiler.variables

\* A compile step leaves every binding as it was.
BindingsKept ==
    \A name \in DOMAIN compiler.variables :
        /\ name \in DOMAIN compiler'.variables
        /\ compiler'.variables[name] = compiler.variables[name]

\* C17: declaring a new name allocates a slot, binds the name and stores to
\* the slot; declaring or assigning a declared name stores to the slot the
\* name already has, and no compile step changes a binding; assigning an
\* undeclared name fails and emits nothing.
C17_DeclareAndAssign ==
    /\ []((IsSource(prog) /\ compiler.err = "") =>
             \A name \in IdentifierNames : DeclaresAndAssigns(name))
    /\ [][BindingsKept]_vars

\* A redeclared variable: x is declared twice and the program has two STOREs
\* to its one slot and a single slot allocated for x.
C17_Witness ==
    /\ IsSource(prog)
    /\ Body(prog) = Fixed[21]
    /\ phase = "done"
    /\ Len(SelectSeq(returned.blocks[MainLabel],
                     LAMBDA instruction :
                         /\ instruction.opcode = "STORE"
                         /\ instruction.args[1].value = compiler.variables["x"])) = 2
    /\ Len(SelectSeq(compiler.allocs, LAMBDA a : a.what = ForVariable("x"))) = 1

RECURSIVE LoopsOf(_, _)
\* The loops of a statement, each with its label and the label of the block
\* that encloses it.
LoopsOf(statement, enclosing) ==
    LET Inside(body, label) == UNION {LoopsOf(body[i], label) : i \in DOMAIN body}
        Loop(kind) ==
            {[node |-> statement, label |-> SpanLabel(kind, statement),
              enclosing |-> enclosing]}
            \cup Inside(BodyOf(statement.body), SpanLabel(kind, statement))
    IN  CASE statement.type = "WhileStatement" -> Loop("while")
          [] statement.type = "ForStatement" -> Loop("for")
          [] statement.type = "IfStatement" ->
               Inside(BodyOf(statement.consequent), SpanLabel("if", statement))
               \cup (IF statement.alternate.type = "null" THEN {}
                     ELSE Inside(BodyOf(statement.alternate), SpanLabel("else", statement)))
          [] OTHER -> {}

Loops(p) == UNION {LoopsOf(Body(p)[i], MainLabel) : i \in DOMAIN Body(p)}

IsPrefix(p, s) == Len(p) <= Len(s) /\ SubSeq(s, 1, Len(p)) = p
IsSuffix(p, s) == Len(p) <= Len(s) /\ SubSeq(s, Len(s) - Len(p) + 1, Len(s)) = p

\* A compiler with the program's bindings, an empty block and n slots in use.
Scratch(n) == [NewCompiler EXCEPT !.variables = compiler.variables, !.counter = n]

\* test evaluation, PUSH test, NEG, EXIT_IF
LoopHead(node, n) ==
    IF node.test.type = "null" THEN <<>>
    ELSE translateExpression(Scratch(n), node.test).c.heap[1]
         \o <<Instr("PUSH", <<translateExpression(Scratch(n), node.test).arg>>),
              Instr("NEG", <<>>), Instr("EXIT_IF", <<>>)>>

\* update, LOOP
LoopTail(node, n) ==
    (IF node.type = "ForStatement" /\ node.update.type # "null"
     THEN buildStatement(Scratch(n), ExprStmt(node.update)).heap[1]
     ELSE <<>>)
    \o <<Instr("LOOP", <<>>)>>

\* The lowering of the init of a for statement.
LoopInit(node, n) ==
    IF node.type # "ForStatement" \/ node.init.type = "null" THEN <<>>
    ELSE IF node.init.type = "VariableDeclaration"
    THEN buildStatement(Scratch(n), node.init).heap[1]
    ELSE buildStatement(Scratch(n), ExprStmt(node.init)).heap[1]

JmpTo(label) == Instr("JMP", <<[type |-> "LOAD_STRING", str |-> label]>>)

LoopShape(l) ==
    /\ l.label \in DOMAIN returned.blocks
    /\ l.enclosing \in DOMAIN returned.blocks
    /\ \E n, m \in 0..compiler.counter :
          /\ IsPrefix(LoopHead(l.node, n), returned.blocks[l.label])
          /\ IsSuffix(LoopTail(l.node, m), returned.blocks[l.label])
          /\ Len(LoopHead(l.node, n)) + Len(LoopTail(l.node, m))
                <= Len(returned.blocks[l.label])
    /\ Len(SelectSeq(returned.blocks[l.label],
                     LAMBDA instruction : instruction.opcode = "EXIT_IF"))
          = IF l.node.test.type = "null" THEN 0 ELSE 1
    /\ \A label \in DOMAIN returned.blocks :
          Len(SelectSeq(returned.blocks[label],
                        LAMBDA instruction : instruction = JmpTo(l.label)))
             = IF label = l.enclosing THEN 1 ELSE 0
    /\ \E j \in DOMAIN returned.blocks[l.enclosing] :
          /\ returned.blocks[l.enclosing][j] = JmpTo(l.label)
          /\ \E n \in 0..compiler.counter :
                IsSuffix(LoopInit(l.node, n), SubSeq(returned.blocks[l.enclosing], 1, j - 1))

BlockEnd(label) == returned.blocks[label][Len(returned.blocks[label])].opcode

\* C18: in the returned IL a loop's block begins with the evaluation of the
\* test, PUSH test, NEG, EXIT_IF (nothing when a for has no test) and ends
\* with the update of a for and LOOP; the enclosing block holds one JMP to
\* the loop, after the init of a for; every block ends with LOOP when it is
\* a loop's and with EXIT otherwise.
C18_LoopShape ==
    (IsSource(prog) /\ phase \in {"assemble", "construct", "run", "done", "fault"}) =>
        /\ \A l \in Loops(prog) : LoopShape(l)
        /\ \A label \in DOMAIN returned.blocks :
              BlockEnd(label) =
                  IF label \in {l.label : l \in Loops(prog)} THEN "LOOP" ELSE "EXIT"

\* The returned IL of a for with init, test and update, and of a for without
\* them that holds a while.
C18_Witness ==
    /\ IsSource(prog)
    /\ phase = "assemble"
    /\ \E l \in Loops(prog) :
          /\ l.node.type = "ForStatement"
          /\ \/ l.node.test.type # "null" /\ l.node.update.type # "null"
                   /\ l.node.init.type # "null"
             \/ l.node.test.type = "null" /\ \E w \in Loops(prog) : w.enclosing = l.label

\* var x = 0; x++; ++x; var y = x--;
UpdateProgram == Fixed[9]

\* The slot the k-th postfix update of the program returns as its value.
PostfixSlot(k) ==
    SelectSeq(compiler.allocs, LAMBDA a : a.what = ForIntermediate("postfix"))[k].slot

\* C19: when `var x = 0; x++; ++x; var y = x--;` has run, x holds 1 (0 + 1 + 1
\* - 1), the slot returned for x++ holds the old value 0, the slot returned
\* for x-- holds the old value 2, and so does y.
C19_UpdateValues ==
    (IsSource(prog) /\ Body(prog) = UpdateProgram /\ phase \in {"done", "fault"}) =>
        /\ phase = "done"
        /\ Local(vm, NatStr(compiler.variables["x"])) = Num(1)
        /\ Local(vm, NatStr(PostfixSlot(1))) = Num(0)
        /\ Local(vm, NatStr(PostfixSlot(2))) = Num(2)
        /\ Local(vm, NatStr(compiler.variables["y"])) = Num(2)

\* The instruction of the returned IL that is encoded at byte offset pc, as a
\* set (empty when pc is not the first byte of an instruction).
InstructionAt(pc) ==
    {returned.blocks[label][k] :
        <<label, k>> \in
            {<<l, j>> \in (DOMAIN returned.blocks) \X (1..Len(vm.bytecode)) :
                /\ j \in DOMAIN returned.blocks[l]
                /\ image.lookUpTable[l]
                      + Len(EncodeBlock(SubSeq(returned.blocks[l], 1, j - 1), image.strings))
                   = pc}}

UnaryOpcodes == {"NEG", "TYPEOF"}

\* The number of values the instruction takes from the operand stack;
\* -1 for an instruction that is not an operator, property get, call or
\* construction.
Operands(instruction) ==
    CASE instruction.opcode \in {BinaryOpcode(BinaryOperators[o]) : o \in DOMAIN BinaryOperators}
             -> 2
      [] instruction.opcode \in UnaryOpcodes -> 1
      [] instruction.opcode \in {"GET_PROPERTY", "CALL"} -> 2
      [] instruction.opcode = "CALL_MEMBER_EXPRESSION" -> 3
      [] instruction.opcode = "INIT_ARRAY" -> instruction.args[1].value
      [] instruction.opcode = "INIT_OBJECT" -> 2 * instruction.args[1].value
      [] OTHER -> -1

\* C20: when an operator, property get, call or array/object construction of
\* a compiled program is about to execute, the operand stack holds that
\* instruction's operands and nothing else.
C20_StackHoldsOnlyOperands ==
    (IsSource(prog) /\ InLoop) =>
        \A instruction \in InstructionAt(vm.programCounter) :
            Operands(instruction) >= 0 => Len(vm.stack) = Operands(instruction)

\* var x = 1; var y = x + (x = 5);
OrderProgram == Fixed[37]

\* C21: when the ADD of `var x = 1; var y = x + (x = 5);` is about to execute,
\* its left operand, second from the top of the stack, is the value x had
\* before the assignment in the right operand was evaluated.
C21_LeftOperandBeforeRight ==
    (IsSource(prog) /\ Body(prog) = OrderProgram /\ InLoop
        /\ \E instruction \in InstructionAt(vm.programCounter) : instruction.opcode = "ADD") =>
        /\ Len(vm.stack) >= 2
        /\ Top(vm, 2) = Num(1)

\* The VM has been constructed.
Constructed == phase \in {"run", "done", "fault"}

\* The VM about to decode an operand whose header byte is at offset p.
DecodingAt(p) == [vm EXCEPT !.programCounter = p]

\* The eight bytes b0..b7 that follow the header byte at offset p.
Payload(p) == [i \in 1..8 |-> IF ByteAt(vm, p + i) < 0 THEN 0 ELSE ByteAt(vm, p + i)]

\* The integer of the payload is below 2^31.
PayloadFits(p) == Payload(p)[4] < 128 /\ \A i \in 5..8 : Payload(p)[i] = 0

\* The bytes of n < 2^31, least significant first.
BytesOf(n) == [i \in 1..8 |-> IF i > 4 THEN 0 ELSE (n \div (256 ^ (i - 1))) % 256]

\* The offsets at which a decoding is examined: the header byte is one of
\* the tags, and the bytes it is followed by are in the byte stream.
DecodableOffsets ==
    {p \in 0..(Len(vm.bytecode) - 1) :
        \/ ByteAt(vm, p) \in {Header.LOAD_STRING, Header.LOAD_NUMBER} /\ PayloadFits(p)
        \/ ByteAt(vm, p) \in {Header.FETCH_DEPENDENCY, Header.FETCH_VARIABLE}
              /\ p + 1 < Len(vm.bytecode)
        \/ ByteAt(vm, p) \in {Header.LOAD_ARRAY, UndefinedHeader.LOAD_UNDEFINED}}

\* What getValue does for the fixed-width tags, given the integer n that the
\* eight bytes b0..b7 stand for.
DecodesWidths(p, n) ==
    LET header == ByteAt(vm, p)
        r == getValue(DecodingAt(p))
    IN  /\ r.err = ""
        /\ header = Header.LOAD_NUMBER =>
              /\ r.val = Num(n)
              /\ r.vm = [vm EXCEPT !.programCounter = p + 9]
        /\ header = Header.LOAD_STRING =>
              /\ r.val = IF n < Len(vm.strings) THEN Str(vm.strings[n + 1]) ELSE Undef
              /\ r.vm = [vm EXCEPT !.programCounter = p + 9]
        /\ header = Header.FETCH_DEPENDENCY =>
              /\ r.val = Elem(vm.dependencies, ByteAt(vm, p + 1))
              /\ r.vm = [vm EXCEPT !.programCounter = p + 2]
        /\ header = Header.FETCH_VARIABLE =>
              /\ r.val = Local(vm, NatStr(ByteAt(vm, p + 1)))
              /\ r.vm = [vm EXCEPT !.programCounter = p + 2]
        /\ header = Header.LOAD_ARRAY =>
              /\ r.val.t = "arr" /\ r.val.a = <<>> /\ r.val.id = vm.nextId
              /\ r.vm = [vm EXCEPT !.programCounter = p + 1, !.nextId = @ + 1]
        /\ header = UndefinedHeader.LOAD_UNDEFINED =>
              /\ r.val = Undef
              /\ r.vm = [vm EXCEPT !.programCounter = p + 1]

\* The integers that can be what the operand at offset p decodes to: the
\* number decoded, or an index into the string table (the length of the
\* table standing for every index past its end).
BigEndianCandidates(p) ==
    IF ByteAt(vm, p) = Header.LOAD_NUMBER THEN {getValue(DecodingAt(p)).val.n}
    ELSE IF ByteAt(vm, p) = Header.LOAD_STRING THEN 0..Len(vm.strings)
    ELSE {0}

\* C22 as stated: LOAD_NUMBER and LOAD_STRING read the eight bytes b0..b7 as
\* the integer whose most significant byte is b0 (big-endian).
C22_DecodesBigEndian ==
    Constructed =>
        \A p \in DecodableOffsets :
            \E n \in BigEndianCandidates(p) :
                /\ DecodesWidths(p, n)
                /\ ByteAt(vm, p) \in {Header.LOAD_STRING, Header.LOAD_NUMBER} =>
                      Reverse(BytesOf(n)) = Payload(p)

\* C22 amended: decoding consumes the header byte and a tag-fixed number of
\* bytes; LOAD_NUMBER and LOAD_STRING read the eight bytes b0..b7 as the
\* integer b0 + b1*256 + ... (least significant byte first), the string
\* being the table entry at that index; FETCH_DEPENDENCY and FETCH_VARIABLE
\* read one index byte; LOAD_ARRAY and LOAD_UNDEFINED read nothing more and
\* give a fresh empty array and undefined.
C22_DecodesLittleEndian ==
    Constructed =>
        \A p \in DecodableOffsets :
            DecodesWidths(p, Payload(p)[1] + 256 * Payload(p)[2] + 65536 * Payload(p)[3]
                                + 16777216 * Payload(p)[4])

\* `var n = 258; ...` has run: the operand bytes 2, 1, 0, ... have been
\* decoded and stored as 258, and the second string of the table as "b".
C22_Witness ==
    /\ IsSource(prog)
    /\ phase = "done"
    /\ \E p \in DecodableOffsets :
          /\ ByteAt(vm, p) = Header.LOAD_NUMBER
          /\ Payload(p) = <<2, 1, 0, 0, 0, 0, 0, 0>>
    /\ Local(vm, NatStr(compiler.variables["n"])) = Num(258)
    /\ Local(vm, NatStr(compiler.variables["t"])) = Str("b")

\* C23: decoding a POP_STACK operand on a non-empty operand stack returns the
\* value that was on top and leaves the stack one element shorter, the
\* remaining elements unchanged.
C23_PopStackReturnsTop ==
    (Constructed /\ vm.stack # <<>>) =>
        \A p \in {q \in 0..(Len(vm.bytecode) - 1) : ByteAt(vm, q) = Header.POP_STACK} :
            /\ getValue(DecodingAt(p)).err = ""
            /\ getValue(DecodingAt(p)).val = Top(vm, 1)
            /\ getValue(DecodingAt(p)).vm.stack = SubSeq(vm.stack, 1, Len(vm.stack) - 1)

\* The program counter after the i-th instruction executed.
PcAfter(i) == IF i < Len(hist.visits) THEN hist.visits[i + 1] ELSE vm.programCounter

\* The continuations left by the i-th instruction executed, given those before
\* it (newest first): a JMP_IF that went elsewhere than to the next byte adds
\* the address that follows it, an EXIT removes the newest.
AfterVisit(i, before) ==
    IF ByteAt(vm, hist.visits[i]) = Opcode.JMP_IF /\ PcAfter(i) # hist.visits[i] + 1
    THEN <<[k |-> "resume", pc |-> hist.visits[i] + 1]>> \o before
    ELSE IF ByteAt(vm, hist.visits[i]) = Opcode.EXIT /\ before # <<>>
    THEN Tail(before)
    ELSE before

RECURSIVE Unexited(_, _)
\* The continuations of the jumps not yet exited, newest first, above the
\* one the constructor installs: the instructions from the i-th on applied to acc.
Unexited(i, acc) ==
    IF i > Len(hist.visits) \/ Len(acc) > Len(hist.visits) + 1 THEN acc
    ELSE Unexited(i + 1, AfterVisit(i, acc))

\* A taken jump goes to the label's offset; an EXIT goes where the newest
\* continuation says.
JumpsAndReturns ==
    /\ (Fetches("JMP_IF") /\ hist'.entered = hist.entered + 1) =>
          /\ vm'.programCounter = vm.lookUpTable[PropertyKey(Top(vm, 1))]
          /\ vm'.exitToPreviousContext =
                <<[k |-> "resume", pc |-> vm.programCounter + 1]>> \o vm.exitToPreviousContext
    /\ (Fetches("EXIT") /\ hist'.exits = hist.exits + 1) =>
          /\ vm'.exitToPreviousContext = Tail(vm.exitToPreviousContext)
          /\ vm'.programCounter =
                IF Head(vm.exitToPreviousContext).k = "resume"
                THEN Head(vm.exitToPreviousContext).pc
                ELSE Len(vm.bytecode) + 1

\* C24: the continuation stack is at all times the addresses that follow the
\* jumps taken and not yet exited, the most recent first, above the
\* constructor's continuation; a taken jump pushes the address that follows
\* it and goes to the label's offset, and an EXIT removes the newest
\* continuation and goes to the address it holds.
C24_LastInFirstOut ==
    /\ [](phase \in {"run", "done"} =>
             vm.exitToPreviousContext = Unexited(1, <<BaseContinuation>>))
    /\ [][JumpsAndReturns]_vars

\* The EXIT of a block entered from a block has returned into the outer
\* block: two jumps taken, one exited, the outer one's continuation on top.
C24_Witness ==
    /\ phase = "run"
    /\ hist.entered = 2
    /\ hist.exits = 1
    /\ Len(vm.exitToPreviousContext) = 2
    /\ \E i \in DOMAIN hist.visits :
          /\ i + 2 = Len(hist.visits)
          /\ ByteAt(vm, hist.visits[i]) = Opcode.JMP_IF
          /\ ByteAt(vm, hist.visits[Len(hist.visits)]) = Opcode.EXIT
          /\ vm.programCounter = hist.visits[i] + 1

\* The host-global value a dependency name is bound to.
HostGlobal(name) == IF name = "window" THEN Window ELSE WindowGet(name)

\* C25: once the VM is constructed, the dependency-table entry at the index
\* the compiler emits for a name is the host-global value of that name, and
\* the log method is found on the console entry.
C25_DependenciesAreHostValues ==
    Constructed =>
        /\ \A name \in Range(dependencies) :
              Elem(vm.dependencies, getDependencyPointer(name)) = HostGlobal(name)
        /\ GetProperty(Elem(vm.dependencies, getDependencyPointer("console")), Str("log")).val
              = Fn("console.log")

\* The labels the JMP and JMP_IF_ELSE instructions of the compiler's blocks name.
JumpLabels ==
    {arg.str : arg \in
        {a \in UNION {Range(instruction.args) : instruction \in
                         {i \in Range(Flatten(compiler.heap)) :
                             i.opcode \in {"JMP", "JMP_IF_ELSE"}}} :
            a.type = "LOAD_STRING"}}

\* C26: in the returned IL every label a jump names is a key, and every block
\* the compiler made for a construct is still the block of that construct's
\* label: no block has been replaced under its label by a later one.
C26_LabelsUnique ==
    (IsSource(prog) /\ phase \in {"assemble", "construct", "run", "done", "fault"}) =>
        /\ JumpLabels \subseteq DOMAIN returned.blocks
        /\ \A block \in DOMAIN compiler.heap :
              \E label \in DOMAIN compiler.il :
                  /\ compiler.il[label] = block
                  /\ returned.blocks[label] = compiler.heap[block]

\* C27: when a POP of a compiled program is about to execute, the operand
\* stack is not empty: there is a value for it to remove.
C27_PopNeverOnEmptyStack ==
    (IsSource(prog) /\ InLoop
        /\ \E instruction \in InstructionAt(vm.programCounter) : instruction.opcode = "POP") =>
        vm.stack # <<>>

\* var x = 1; x += 2;
CompoundProgram == Fixed[40]

CompoundOperators == {"+=", "-=", "*="}

\* The compiler after `name op 1;`.
AfterCompound(name, op) == buildStatement(compiler, ExprStmt(Assign(op, Ident(name), NumLit(1))))

\* C28: an assignment with an operator other than `=` to a declared variable
\* is not compiled to the plain STORE of its right-hand side, and when
\* `var x = 1; x += 2;` has run, x holds 3.
C28_CompoundNotPlainStore ==
    /\ (IsSource(prog) /\ compiler.err = "") =>
          \A name \in DOMAIN compiler.variables : \A op \in CompoundOperators :
              ~StoreAppended(AfterCompound(name, op), compiler.variables[name])
    /\ (IsSource(prog) /\ Body(prog) = CompoundProgram /\ phase = "done") =>
          Local(vm, NatStr(compiler.variables["x"])) = Num(3)

\* The bytes an operand with the given header byte takes, header included.
OperandWidth(header) ==
    IF header \in {Header.LOAD_STRING, Header.LOAD_NUMBER} THEN 9
    ELSE IF header \in {Header.FETCH_DEPENDENCY, Header.FETCH_VARIABLE} THEN 2
    ELSE 1

\* The slots other than key are as they were.
OtherSlotsKept(key) ==
    /\ DOMAIN vm'.localVariables \ {key} = DOMAIN vm.localVariables \ {key}
    /\ \A k \in DOMAIN vm.localVariables \ {key} : vm'.localVariables[k] = vm.localVariables[k]

\* STORE n, operand with a number as destination and no stack operand.
StoresNumberedSlot ==
    /\ Fetches("STORE")
    /\ ByteAt(vm, vm.programCounter + 1) = Header.LOAD_NUMBER
    /\ PayloadFits(vm.programCounter + 1)
    /\ ByteAt(vm, vm.programCounter + 10) \in
          {Header.LOAD_STRING, Header.LOAD_NUMBER, Header.FETCH_VARIABLE,
           Header.FETCH_DEPENDENCY, Header.LOAD_ARRAY, UndefinedHeader.LOAD_UNDEFINED}

\* POP with the undefined sentinel as destination.
PopsIntoSentinel ==
    /\ Fetches("POP")
    /\ ByteAt(vm, vm.programCounter + 1) = UndefinedHeader.LOAD_UNDEFINED

StoreAndPopFrame ==
    /\ StoresNumberedSlot =>
          /\ vm'.stack = vm.stack
          /\ vm'.exitToPreviousContext = vm.exitToPreviousContext
          /\ \E key \in DOMAIN vm'.localVariables :
                /\ key = NatStr(Payload(vm.programCounter + 1)[1]
                                 + 256 * Payload(vm.programCounter + 1)[2])
                /\ OtherSlotsKept(key)
          /\ vm'.programCounter =
                vm.programCounter + 10 + OperandWidth(ByteAt(vm, vm.programCounter + 10))
    /\ PopsIntoSentinel =>
          /\ vm'.stack = SubSeq(vm.stack, 1, Len(vm.stack) - 1)
          /\ vm'.exitToPreviousContext = vm.exitToPreviousContext
          /\ OtherSlotsKept("undefined")
          /\ vm'.programCounter = vm.programCounter + 2

\* C29: a STORE with a numeric destination and an operand not taken from the
\* stack sets the one slot it names and leaves every other slot, the operand
\* stack and the continuation stack as they were; a POP into the undefined
\* sentinel removes the top of the operand stack and leaves every numbered
\* slot as it was; both advance the program counter by their own bytes only.
C29_StoreAndPopFrame == [][StoreAndPopFrame]_vars

\* Both have executed with something to keep: a POP into the sentinel has
\* run above a non-empty rest of the stack, and several slots are set.
C29_Witness ==
    /\ IsSource(prog)
    /\ phase = "run"
    /\ "undefined" \in DOMAIN vm.localVariables
    /\ Cardinality(DOMAIN vm.localVariables) >= 3
    /\ vm.stack # <<>>
    /\ \E i \in DOMAIN hist.visits :
          /\ ByteAt(vm, hist.visits[i]) = Opcode.STORE
          /\ \E j \in DOMAIN hist.visits : j < i /\ ByteAt(vm, hist.visits[j]) = Opcode.POP
                /\ ByteAt(vm, hist.visits[j] + 1) = UndefinedHeader.LOAD_UNDEFINED

====
